---- MODULE Spec2Model ----
(***************************************************************************)
(* State-machine model of the text search and string-replace tools of      *)
(* src/src/tools/cli.ts: str_replace, batch_str_replace, batch_write_files, *)
(* search_in_file, batch_read_files and batch_search_in_files over a small  *)
(* file system, and the edit-distance and fuzzy-matching functions; and of  *)
(* several replace requests handled together by the one thread of the      *)
(* server process.                                                         *)
(*                                                                         *)
(* A JavaScript string is a sequence of one-character strings.  An         *)
(* optional argument that the caller left out is a field missing from the  *)
(* argument record, as in the JavaScript object.                           *)
(***************************************************************************)
EXTENDS Integers, Sequences, FiniteSets, TLC

VARIABLES
    files,      \* the file system: path -> [kind, content]
    pc,         \* position of the request being handled
    args,       \* the arguments of the request being handled
    tool,       \* the name of the tool the request calls
    index,      \* handleBatchStrReplace: the loop variable
    results,    \* handleBatchStrReplace / handleBatchSearchInFiles: results
    response,   \* what the handler returned
    files0,     \* history: the file system when the request arrived
    filesPrev,  \* history: the file system before the latest loop iteration
    settled,    \* handleBatchSearchInFiles: the searches that have settled
    fsLog,      \* history: the file-system calls made, in order
    inflight,   \* requests handled together: request -> its handler's state
    running     \* requests handled together: the handler that is executing

vars == <<files, pc, tool, args, index, results, response, files0, filesPrev,
          settled, fsLog, inflight, running>>

-----------------------------------------------------------------------------
(* Bounds of the model.                                                    *)

MaxBatch == 3

MaxSearches == 2

\* the largest cap on the number of matches a request sets
MaxCap == 2

\* the longest strings levenshteinDistance and similarityRatio are called with
MaxStrLen == 3

\* the longest lines findFuzzyMatches is called with, two set lines apart
MaxLineLen == 4

-----------------------------------------------------------------------------
(* JavaScript string primitives.                                           *)

Min(a, b) == IF a <= b THEN a ELSE b

Max(a, b) == IF a >= b THEN a ELSE b

\* s.substring(from0, to0) with 0-based, end-exclusive, in-range offsets
Substring(s, from0, to0) == SubSeq(s, from0 + 1, to0)

\* t occurs in s at the 0-based offset i
OccursAt(s, t, i) ==
    /\ i >= 0
    /\ i + Len(t) <= Len(s)
    /\ \A k \in 1..Len(t) : s[i + k] = t[k]

\* s.indexOf(t, from0): the least offset >= from0 where t occurs, or -1
IndexOf(s, t, from0) ==
    LET hits == {i \in from0..(Len(s) - Len(t)) : OccursAt(s, t, i)}
    IN  IF hits = {} THEN -1
        ELSE CHOOSE i \in hits : \A j \in hits : i <= j

RECURSIVE SplitFrom(_, _, _)
\* the pieces of s from offset p on, cut at each occurrence of the non-empty sep
SplitFrom(s, sep, p) ==
    LET q == IndexOf(s, sep, p)
    IN  IF q = -1 THEN <<Substring(s, p, Len(s))>>
        ELSE <<Substring(s, p, q)>> \o SplitFrom(s, sep, q + Len(sep))

\* s.split(sep) for a string separator and no limit (ECMAScript
\* String.prototype.split): an empty separator cuts between all code units
\* and yields no piece at all for the empty string
Split(s, sep) ==
    IF Len(sep) = 0
    THEN [i \in 1..Len(s) |-> <<s[i]>>]
    ELSE SplitFrom(s, sep, 0)

RECURSIVE Join(_, _)
\* parts.join(sep)
Join(parts, sep) ==
    IF Len(parts) = 0 THEN <<>>
    ELSE IF Len(parts) = 1 THEN parts[1]
    ELSE parts[1] \o sep \o Join(Tail(parts), sep)

\* the character U+0060 (grave accent), which a TLA+ string cannot hold alone
GraveAccent == "U+0060"

Apostrophe == "'"

RECURSIVE GetSubstitution(_, _, _, _)
\* ECMAScript GetSubstitution for a string search value (no captures): in the
\* replacement template "$$" is "$", "$&" the matched text, "$" and a grave
\* accent the text before the match, "$" and an apostrophe the text after
\* it; any other "$" stands for itself
GetSubstitution(matched, str, position, template) ==
    IF Len(template) = 0 THEN <<>>
    ELSE IF template[1] = "$" /\ Len(template) >= 2
              /\ template[2] \in {"$", "&", GraveAccent, Apostrophe}
         THEN (CASE template[2] = "$" -> <<"$">>
                 [] template[2] = "&" -> matched
                 [] template[2] = GraveAccent -> Substring(str, 0, position)
                 [] template[2] = Apostrophe ->
                        Substring(str, position + Len(matched), Len(str)))
              \o GetSubstitution(matched, str, position,
                                 SubSeq(template, 3, Len(template)))
         ELSE <<template[1]>>
              \o GetSubstitution(matched, str, position, Tail(template))

\* s.replace(searchValue, replaceValue) with both arguments strings
\* (ECMAScript String.prototype.replace): the first occurrence only
StringReplace(s, searchValue, replaceValue) ==
    LET pos == IndexOf(s, searchValue, 0)
    IN  IF pos = -1 THEN s
        ELSE Substring(s, 0, pos)
             \o GetSubstitution(searchValue, s, pos, replaceValue)
             \o Substring(s, pos + Len(searchValue), Len(s))

-----------------------------------------------------------------------------
(* The file system the handlers call through fs.                           *)

Paths == {"f", "g"}

NoFile == [kind |-> "none", content |-> <<>>]

Directory == [kind |-> "dir", content |-> <<>>]

RegularFile(text) == [kind |-> "file", content |-> text]

\* fs.existsSync(path)
ExistsSync(fsys, path) == fsys[path].kind # "none"

\* fs.readFileSync(path, 'utf-8') throws for a missing path and a directory
ReadThrows(fsys, path) == fsys[path].kind # "file"

ReadErrorMessage(fsys, path) ==
    IF fsys[path].kind = "dir" THEN "EISDIR" ELSE "ENOENT"

ReadFileSync(fsys, path) == fsys[path].content

\* Mutant: the read opens the path for appending and so creates a missing file
AfterReadFileSyncCreating(fsys, path) ==
    IF fsys[path].kind = "none"
    THEN [fsys EXCEPT ![path] = RegularFile(<<>>)]
    ELSE fsys

\* the file system after fs.readFileSync(path, 'utf-8'), thrown or not: the
\* call opens the path for reading only
AfterReadFileSync(fsys, path) == fsys

\* fs.writeFileSync(path, text, 'utf-8') of a regular file replaces its text
WriteFileSync(fsys, path, text) ==
    [fsys EXCEPT ![path] = RegularFile(text)]

FsCall(call, path, idx) == [call |-> call, path |-> path, index |-> idx]

-----------------------------------------------------------------------------
(* handleStrReplace                                                        *)

\* args.oldText ?? args.old_str; a missing value is the empty string here,
\* both being rejected alike by the !oldStr test that follows
OldStrOf(a) ==
    IF "oldText" \in DOMAIN a THEN a.oldText
    ELSE IF "old_str" \in DOMAIN a THEN a.old_str
    ELSE <<>>

\* args.newText ?? args.new_str ?? ''
NewStrOf(a) ==
    IF "newText" \in DOMAIN a THEN a.newText
    ELSE IF "new_str" \in DOMAIN a THEN a.new_str
    ELSE <<>>

\* Mutant: the count only tells whether the text is found at all
OccurrencesFoundOrNot(content, oldStr) ==
    IF IndexOf(content, oldStr, 0) = -1 THEN 0 ELSE 1

\* Mutant: the number of pieces, without the - 1
OccurrencesOffByOne(content, oldStr) == Len(Split(content, oldStr))

\* Mutant: every offset the text occurs at is counted
OccurrencesOverlapping(content, oldStr) ==
    Cardinality({i \in 0..Len(content) : OccursAt(content, oldStr, i)})

\* content.split(oldStr).length - 1
Occurrences(content, oldStr) == Len(Split(content, oldStr)) - 1

ErrorResponse(text) == [isError |-> TRUE, text |-> text]

OkResponse(text) == [isError |-> FALSE, text |-> text]

\* The whole handler on the file system fsys: the response, the file system
\* it leaves and the file-system calls it made
StrReplace(fsys, a) ==
    LET oldStr == OldStrOf(a)
        newStr == NewStrOf(a)
        content == ReadFileSync(fsys, a.path)
        occurrences == Occurrences(content, oldStr)
        exists == FsCall("existsSync", a.path, 0)
        read == FsCall("readFileSync", a.path, 0)
        write == FsCall("writeFileSync", a.path, 0)
    IN  IF Len(oldStr) = 0
        THEN [response |-> ErrorResponse([msg |-> "oldText parameter is required"]),
              files |-> fsys, calls |-> <<>>]
        ELSE IF ~ExistsSync(fsys, a.path)
        THEN [response |-> ErrorResponse([msg |-> "File not found", path |-> a.path]),
              files |-> fsys, calls |-> <<exists>>]
        ELSE IF ReadThrows(fsys, a.path)
        THEN [response |-> ErrorResponse([msg |-> ReadErrorMessage(fsys, a.path)]),
              files |-> fsys, calls |-> <<exists, read>>]
        ELSE IF occurrences = 0
        THEN [response |-> ErrorResponse([msg |-> "String not found in file",
                                          oldStr |-> oldStr]),
              files |-> fsys, calls |-> <<exists, read>>]
        ELSE IF occurrences > 1
        THEN [response |-> ErrorResponse([msg |-> "String appears N times in file",
                                          occurrences |-> occurrences]),
              files |-> fsys, calls |-> <<exists, read>>]
        ELSE [response |-> OkResponse([msg |-> "Successfully replaced string",
                                       path |-> a.path]),
              files |-> WriteFileSync(fsys, a.path,
                                      StringReplace(content, oldStr, newStr)),
              calls |-> <<exists, read, write>>]

-----------------------------------------------------------------------------
(* handleBatchStrReplace                                                   *)

\* args.stopOnError ?? false
StopOnErrorOf(a) == IF "stopOnError" \in DOMAIN a THEN a.stopOnError ELSE FALSE

\* op.newText ?? ''
NewTextOf(op) == IF "newText" \in DOMAIN op THEN op.newText ELSE <<>>

\* op.replaceAll ?? false
ReplaceAllOf(op) == IF "replaceAll" \in DOMAIN op THEN op.replaceAll ELSE FALSE

FailedResult(idx, error) == [index |-> idx, success |-> FALSE, error |-> error]

\* the replacements figure of a successful item
ReplacementsOf(replaceAll, occurrences) == IF replaceAll THEN occurrences ELSE 1

SucceededResult(idx, op, occurrences) ==
    [index |-> idx, success |-> TRUE,
     result |-> [path |-> op.path,
                 replacements |-> ReplacementsOf(ReplaceAllOf(op), occurrences),
                 oldTextLength |-> Len(op.oldText),
                 newTextLength |-> Len(NewTextOf(op))]]

\* Mutant: replaceAll is ignored, the first occurrence alone is replaced
NewContentFirstOnly(content, op) ==
    StringReplace(content, op.oldText, NewTextOf(op))

\* the new text of the file: split and join when replaceAll, else
\* String.prototype.replace
NewContent(content, op) ==
    IF ReplaceAllOf(op)
    THEN Join(Split(content, op.oldText), NewTextOf(op))
    ELSE StringReplace(content, op.oldText, NewTextOf(op))

\* One iteration of the loop, for the item op at position idx, on the file
\* system fsys: the result pushed, the file system left, the calls made
ReplaceItem(fsys, op, idx) ==
    LET content == ReadFileSync(fsys, op.path)
        occurrences == Occurrences(content, op.oldText)
        exists == FsCall("existsSync", op.path, idx)
        read == FsCall("readFileSync", op.path, idx)
        write == FsCall("writeFileSync", op.path, idx)
    IN  IF ~ExistsSync(fsys, op.path)
        THEN [result |-> FailedResult(idx, [msg |-> "File not found",
                                            path |-> op.path]),
              files |-> fsys, calls |-> <<exists>>]
        ELSE IF ReadThrows(fsys, op.path)
        THEN [result |-> FailedResult(idx, [msg |-> ReadErrorMessage(fsys, op.path),
                                            path |-> op.path]),
              files |-> fsys, calls |-> <<exists, read>>]
        ELSE IF occurrences = 0
        THEN [result |-> FailedResult(idx, [msg |-> "String not found",
                                            path |-> op.path,
                                            oldText |-> op.oldText]),
              files |-> fsys, calls |-> <<exists, read>>]
        ELSE IF ~ReplaceAllOf(op) /\ occurrences > 1
        THEN [result |-> FailedResult(idx, [msg |-> "String appears N times",
                                            path |-> op.path,
                                            occurrences |-> occurrences]),
              files |-> fsys, calls |-> <<exists, read>>]
        ELSE [result |-> SucceededResult(idx, op, occurrences),
              files |-> WriteFileSync(fsys, op.path, NewContent(content, op)),
              calls |-> <<exists, read, write>>]

\* Mutant: every iteration reads the files as they were on arrival
BatchFilesOnArrival == files0

\* the file system an iteration reads
BatchFiles == files

\* Mutant: stopOnError is ignored
LoopEndsAfterLastItem(a, r, idx) == idx + 1 >= Len(a.replacements)

\* Mutant: the loop is left at a failure whatever stopOnError says
LoopEndsAtAnyFailure(a, r, idx) ==
    \/ ~r.success
    \/ idx + 1 >= Len(a.replacements)

\* whether the loop is left after pushing result r of the item at idx
LoopEnds(a, r, idx) ==
    \/ StopOnErrorOf(a) /\ ~r.success
    \/ idx + 1 >= Len(a.replacements)

RECURSIVE SumReplacements(_)
\* results.filter(r => r.success && r.result)
\*        .reduce((sum, r) => sum + (r.result.replacements || 0), 0)
SumReplacements(rs) ==
    IF Len(rs) = 0 THEN 0
    ELSE (IF rs[1].success THEN rs[1].result.replacements ELSE 0)
         + SumReplacements(Tail(rs))

CountWhere(rs, wanted) == Cardinality({i \in 1..Len(rs) : rs[i].success = wanted})

\* results.sort((a, b) => a.index - b.index): a stable sort by index
RECURSIVE SortByIndex(_)
SortByIndex(rs) ==
    IF Len(rs) <= 1 THEN rs
    ELSE LET least == CHOOSE i \in 1..Len(rs) :
                        \A j \in 1..Len(rs) :
                            \/ rs[i].index < rs[j].index
                            \/ rs[i].index = rs[j].index /\ i <= j
             rest == [k \in 1..(Len(rs) - 1) |->
                        IF k < least THEN rs[k] ELSE rs[k + 1]]
         IN  <<rs[least]>> \o SortByIndex(rest)

\* Mutant: a batch with a failing item reports every item as failed
BatchStrReplaceResponseAllOrNothing(a, rs) ==
    [summary |-> [total |-> Len(a.replacements),
                  successful |-> IF CountWhere(rs, FALSE) > 0 THEN 0
                                 ELSE CountWhere(rs, TRUE),
                  failed |-> IF CountWhere(rs, FALSE) > 0 THEN Len(rs)
                             ELSE 0,
                  totalReplacements |-> IF CountWhere(rs, FALSE) > 0 THEN 0
                                        ELSE SumReplacements(rs)],
     results |-> IF CountWhere(rs, FALSE) > 0
                 THEN [k \in 1..Len(rs) |->
                         FailedResult(SortByIndex(rs)[k].index,
                                      [msg |-> "Batch failed"])]
                 ELSE SortByIndex(rs),
     isError |-> CountWhere(rs, FALSE) > 0]

\* the response of a batch: the summary, the sorted results and isError
BatchStrReplaceResponse(a, rs) ==
    [summary |-> [total |-> Len(a.replacements),
                  successful |-> CountWhere(rs, TRUE),
                  failed |-> CountWhere(rs, FALSE),
                  totalReplacements |-> SumReplacements(rs)],
     results |-> SortByIndex(rs),
     isError |-> CountWhere(rs, FALSE) > 0 /\ CountWhere(rs, TRUE) = 0]

-----------------------------------------------------------------------------
(* handleBatchReadFiles and handleBatchWriteFiles                          *)

\* the callback of args.paths.map for the path at idx: its BatchResult
ReadItem(fsys, filePath, idx) ==
    IF ReadThrows(fsys, filePath)
    THEN [index |-> idx, success |-> FALSE,
          error |-> [path |-> filePath, msg |-> ReadErrorMessage(fsys, filePath)]]
    ELSE [index |-> idx, success |-> TRUE,
          result |-> [path |-> filePath, content |-> ReadFileSync(fsys, filePath)]]

\* The callbacks hold no await: map runs them one after another, in array
\* order, before Promise.all is called.
ReadItems(fsys, paths) == [k \in 1..Len(paths) |-> ReadItem(fsys, paths[k], k - 1)]

\* Mutant: isError as soon as one item failed
BatchReadFilesResponseAnyFailed(a, rs) ==
    [summary |-> [total |-> Len(a.paths),
                  successful |-> CountWhere(rs, TRUE),
                  failed |-> CountWhere(rs, FALSE)],
     results |-> SortByIndex(rs),
     isError |-> CountWhere(rs, FALSE) > 0]

BatchReadFilesResponse(a, rs) ==
    [summary |-> [total |-> Len(a.paths),
                  successful |-> CountWhere(rs, TRUE),
                  failed |-> CountWhere(rs, FALSE)],
     results |-> SortByIndex(rs),
     isError |-> CountWhere(rs, FALSE) > 0 /\ CountWhere(rs, TRUE) = 0]

\* fs.writeFileSync(path, text, 'utf-8') throws for a directory
WriteThrows(fsys, path) == fsys[path].kind = "dir"

\* the callback of args.files.map for the file at idx: the directory of the
\* path exists, the file is written or the write throws
WriteItem(fsys, file, idx) ==
    IF WriteThrows(fsys, file.path)
    THEN [result |-> [index |-> idx, success |-> FALSE,
                      error |-> [path |-> file.path, msg |-> "EISDIR"]],
          files |-> fsys]
    ELSE [result |-> [index |-> idx, success |-> TRUE,
                      result |-> [path |-> file.path, written |-> TRUE]],
          files |-> WriteFileSync(fsys, file.path, file.content)]

RECURSIVE WriteItems(_, _, _, _)
\* the callbacks from the k-th on (1-based), run one after another
WriteItems(fsys, items, k, rs) ==
    IF k > Len(items) THEN [results |-> rs, files |-> fsys]
    ELSE LET o == WriteItem(fsys, items[k], k - 1)
         IN  WriteItems(o.files, items, k + 1, Append(rs, o.result))

BatchWriteFilesResponse(a, rs) ==
    [summary |-> [total |-> Len(a.files),
                  successful |-> CountWhere(rs, TRUE),
                  failed |-> CountWhere(rs, FALSE)],
     results |-> SortByIndex(rs),
     isError |-> CountWhere(rs, FALSE) > 0]

-----------------------------------------------------------------------------
(* Lines, letter case and regular expressions.                             *)

UpperCaseLetters ==
    <<"A", "B", "C", "D", "E", "F", "G", "H", "I", "J", "K", "L", "M",
      "N", "O", "P", "Q", "R", "S", "T", "U", "V", "W", "X", "Y", "Z">>

LowerCaseLetters ==
    <<"a", "b", "c", "d", "e", "f", "g", "h", "i", "j", "k", "l", "m",
      "n", "o", "p", "q", "r", "s", "t", "u", "v", "w", "x", "y", "z">>

\* the lower-case form of one character
LowerChar(c) ==
    IF \E k \in 1..Len(UpperCaseLetters) : UpperCaseLetters[k] = c
    THEN LowerCaseLetters[CHOOSE k \in 1..Len(UpperCaseLetters) :
                            UpperCaseLetters[k] = c]
    ELSE c

\* s.toLowerCase()
ToLowerCase(s) == [i \in 1..Len(s) |-> LowerChar(s[i])]

\* content.split('\n')
LinesOf(content) == Split(content, <<"\n">>)

\* the characters /[.*+?^${}()|[\]\\]/ matches
RegexSpecials ==
    {".", "*", "+", "?", "^", "$", "{", "}", "(", ")", "|", "[", "]", "\\"}

\* Mutant: the pattern is compiled as it stands
EscapeNothing(pattern) == pattern

RECURSIVE EscapeRegex(_)
\* pattern.replace(/[.*+?^${}()|[\]\\]/g, '\\$&'): a backslash is put
\* before each special character
EscapeRegex(pattern) ==
    IF Len(pattern) = 0 THEN <<>>
    ELSE (IF pattern[1] \in RegexSpecials THEN <<"\\", pattern[1]>>
          ELSE <<pattern[1]>>)
         \o EscapeRegex(Tail(pattern))

\* The regular expressions of the model are written with ordinary
\* characters, ".", "*" after an atom, "(" and a backslash before any of
\* these.  An atom is one character or any character, once or repeated.
Atom(ch, any, star) == [ch |-> ch, any |-> any, star |-> star]

RECURSIVE ParseRegex(_, _)
\* new RegExp(source): the atoms of source, or the SyntaxError it throws:
\* "*" with nothing to repeat, "(" that is never closed, "\" at the end
ParseRegex(source, atoms) ==
    IF Len(source) = 0 THEN [valid |-> TRUE, atoms |-> atoms]
    ELSE LET c == source[1]
         IN  IF c = "\\"
             THEN IF Len(source) = 1
                  THEN [valid |-> FALSE, atoms |-> <<>>]
                  ELSE ParseRegex(SubSeq(source, 3, Len(source)),
                                  Append(atoms, Atom(source[2], FALSE, FALSE)))
             ELSE IF c = "("
             THEN [valid |-> FALSE, atoms |-> <<>>]
             ELSE IF c = "*"
             THEN IF Len(atoms) = 0 \/ atoms[Len(atoms)].star
                  THEN [valid |-> FALSE, atoms |-> <<>>]
                  ELSE ParseRegex(Tail(source),
                                  [atoms EXCEPT ![Len(atoms)].star = TRUE])
             ELSE ParseRegex(Tail(source),
                             Append(atoms, Atom(c, c = ".", FALSE)))

\* new RegExp(source, caseSensitive ? 'g' : 'gi')
NewRegExp(source, caseSensitive) ==
    LET parsed == ParseRegex(source, <<>>)
    IN  [valid |-> parsed.valid, atoms |-> parsed.atoms,
         ignoreCase |-> ~caseSensitive]

\* the atom matches the character
AtomMatches(atom, c, ignoreCase) ==
    \/ atom.any /\ c # "\n"
    \/ ~atom.any /\ IF ignoreCase THEN LowerChar(atom.ch) = LowerChar(c)
                    ELSE atom.ch = c

RECURSIVE MatchesAt(_, _, _, _)
\* the atoms from the k-th on match line at offset i
MatchesAt(regex, k, line, i) ==
    IF k > Len(regex.atoms) THEN TRUE
    ELSE LET atom == regex.atoms[k]
             here == i < Len(line) /\ AtomMatches(atom, line[i + 1], regex.ignoreCase)
         IN  IF atom.star
             THEN \/ here /\ MatchesAt(regex, k, line, i + 1)
                  \/ MatchesAt(regex, k + 1, line, i)
             ELSE here /\ MatchesAt(regex, k + 1, line, i + 1)

\* regex.test(line) with lastIndex = 0: a match starts somewhere in line
RegexTest(regex, line) == \E i \in 0..Len(line) : MatchesAt(regex, 1, line, i)

-----------------------------------------------------------------------------
(* levenshteinDistance, similarityRatio and findFuzzyMatches               *)

\* Mutant: no substitution, a character is changed by a deletion and an
\* insertion
Min3WithoutSubstitution(a, b, c) == Min(a, b)

Min3(a, b, c) == Min(a, Min(b, c))

RECURSIVE LevRow(_, _, _, _, _)
\* row i of the table dp from row i - 1 (prev, dp[i-1][0..n] at 1..n+1):
\* cur holds dp[i][0..j-1]
LevRow(prev, c, s2, j, cur) ==
    IF j > Len(s2) THEN cur
    ELSE LET cost == IF c = s2[j] THEN 0 ELSE 1
             cell == Min3(prev[j + 1] + 1, cur[j] + 1, prev[j] + cost)
         IN  LevRow(prev, c, s2, j + 1, Append(cur, cell))

RECURSIVE LevRows(_, _, _, _)
\* the last row of dp, filled row after row from row i on
LevRows(s1, s2, i, prev) ==
    IF i > Len(s1) THEN prev
    ELSE LevRows(s1, s2, i + 1, LevRow(prev, s1[i], s2, 1, <<i>>))

\* Mutant: nothing is counted when the first string is empty
levenshteinDistanceFromEmptyIsZero(s1, s2) ==
    IF Len(s1) = 0 THEN 0
    ELSE IF Len(s2) = 0 THEN Len(s1)
    ELSE LevRows(s1, s2, 1, [j \in 1..(Len(s2) + 1) |-> j - 1])[Len(s2) + 1]

levenshteinDistance(s1, s2) ==
    IF Len(s1) = 0 THEN Len(s2)
    ELSE IF Len(s2) = 0 THEN Len(s1)
    ELSE LevRows(s1, s2, 1, [j \in 1..(Len(s2) + 1) |-> j - 1])[Len(s2) + 1]

\* A ratio is a pair of integers num / den with den > 0.
Ratio(num, den) == [num |-> num, den |-> den]

RatioAtLeast(a, b) == a.num * b.den >= b.num * a.den

\* Mutant: the distance is set against the length of the shorter string
similarityRatioOverMinLen(s1, s2) ==
    LET minLen == Min(Len(s1), Len(s2))
    IN  IF Max(Len(s1), Len(s2)) = 0 THEN Ratio(1, 1)
        ELSE Ratio(minLen - levenshteinDistance(s1, s2), minLen)

\* 1 - distance / maxLen, and 1 for two empty strings
similarityRatio(s1, s2) ==
    LET maxLen == Max(Len(s1), Len(s2))
    IN  IF maxLen = 0 THEN Ratio(1, 1)
        ELSE Ratio(maxLen - levenshteinDistance(s1, s2), maxLen)

\* Mutant: the matched text is cut from the lower-cased line
FuzzyMatchFolded(line, start, end, similarity) ==
    [start |-> start, end |-> end,
     matched |-> ToLowerCase(Substring(line, start, end)),
     similarity |-> similarity]

FuzzyMatch(line, start, end, similarity) ==
    [start |-> start, end |-> end, matched |-> Substring(line, start, end),
     similarity |-> similarity]

RECURSIVE CanonicalWindowsEveryOffset(_, _, _, _, _, _)
\* Mutant: after a match the offset moves on by 1 as after any window
CanonicalWindowsEveryOffset(line, searchLine, searchPattern, threshold, i, matches) ==
    LET patternLen == Len(searchPattern)
    IN  IF i > Len(searchLine) - patternLen THEN matches
        ELSE LET window == Substring(searchLine, i, i + patternLen)
                 similarity == similarityRatio(window, searchPattern)
             IN  CanonicalWindowsEveryOffset(line, searchLine, searchPattern,
                     threshold, i + 1,
                     IF RatioAtLeast(similarity, threshold)
                     THEN Append(matches,
                                 FuzzyMatch(line, i, i + patternLen, similarity))
                     ELSE matches)

RECURSIVE CanonicalWindows(_, _, _, _, _, _)
\* the first loop: windows of the length of the pattern, from offset i on;
\* after a match the offset moves on by floor(patternLen / 2) and then by 1
CanonicalWindows(line, searchLine, searchPattern, threshold, i, matches) ==
    LET patternLen == Len(searchPattern)
    IN  IF i > Len(searchLine) - patternLen THEN matches
        ELSE LET window == Substring(searchLine, i, i + patternLen)
                 similarity == similarityRatio(window, searchPattern)
             IN  IF RatioAtLeast(similarity, threshold)
                 THEN CanonicalWindows(line, searchLine, searchPattern, threshold,
                          i + (patternLen \div 2) + 1,
                          Append(matches,
                                 FuzzyMatch(line, i, i + patternLen, similarity)))
                 ELSE CanonicalWindows(line, searchLine, searchPattern, threshold,
                          i + 1, matches)

\* matches.some(m => (i >= m.start && i < m.end)
\*                || (i + windowLen > m.start && i + windowLen <= m.end))
HasOverlap(matches, i, windowLen) ==
    \E k \in 1..Len(matches) :
        \/ i >= matches[k].start /\ i < matches[k].end
        \/ i + windowLen > matches[k].start /\ i + windowLen <= matches[k].end

RECURSIVE VariantWindows(_, _, _, _, _, _, _)
\* the inner loop of the second loop: windows of length windowLen
VariantWindows(line, searchLine, searchPattern, threshold, windowLen, i, matches) ==
    IF i > Len(searchLine) - windowLen THEN matches
    ELSE LET window == Substring(searchLine, i, i + windowLen)
             similarity == similarityRatio(window, searchPattern)
         IN  VariantWindows(line, searchLine, searchPattern, threshold, windowLen,
                 i + 1,
                 IF RatioAtLeast(similarity, threshold)
                    /\ ~HasOverlap(matches, i, windowLen)
                 THEN Append(matches,
                             FuzzyMatch(line, i, i + windowLen, similarity))
                 ELSE matches)

\* Mutant: only the windows longer than the pattern are tried
LenDeltasLongerOnly == <<1, 2>>

LenDeltas == <<-2, -1, 1, 2>>

RECURSIVE VariantLengths(_, _, _, _, _, _)
\* the second loop: for (const lenDelta of [-2, -1, 1, 2])
VariantLengths(line, searchLine, searchPattern, threshold, d, matches) ==
    IF d > Len(LenDeltas) THEN matches
    ELSE LET windowLen == Len(searchPattern) + LenDeltas[d]
         IN  VariantLengths(line, searchLine, searchPattern, threshold, d + 1,
                 IF windowLen < 2 THEN matches
                 ELSE VariantWindows(line, searchLine, searchPattern, threshold,
                                     windowLen, 0, matches))

RECURSIVE SortByStart(_)
\* matches.sort((a, b) => a.start - b.start): a stable sort by start
SortByStart(ms) ==
    IF Len(ms) <= 1 THEN ms
    ELSE LET least == CHOOSE i \in 1..Len(ms) :
                        \A j \in 1..Len(ms) :
                            \/ ms[i].start < ms[j].start
                            \/ ms[i].start = ms[j].start /\ i <= j
             rest == [k \in 1..(Len(ms) - 1) |->
                        IF k < least THEN ms[k] ELSE ms[k + 1]]
         IN  <<ms[least]>> \o SortByStart(rest)

findFuzzyMatches(line, pattern, threshold, caseSensitive) ==
    LET searchLine == IF caseSensitive THEN line ELSE ToLowerCase(line)
        searchPattern == IF caseSensitive THEN pattern ELSE ToLowerCase(pattern)
    IN  SortByStart(
            VariantLengths(line, searchLine, searchPattern, threshold, 1,
                CanonicalWindows(line, searchLine, searchPattern, threshold, 0,
                                 <<>>)))

-----------------------------------------------------------------------------
(* handleBatchSearchInFiles                                                *)

DefaultMaxMatchesPerFile == 50

DefaultFuzzyThreshold == Ratio(7, 10)

\* args.isRegex ?? false
IsRegexOf(a) == IF "isRegex" \in DOMAIN a THEN a.isRegex ELSE FALSE

\* args.isFuzzy ?? false
IsFuzzyOf(a) == IF "isFuzzy" \in DOMAIN a THEN a.isFuzzy ELSE FALSE

\* args.fuzzyThreshold ?? 0.7
FuzzyThresholdOf(a) ==
    IF "fuzzyThreshold" \in DOMAIN a THEN a.fuzzyThreshold
    ELSE DefaultFuzzyThreshold

\* args.caseSensitive !== false
CaseSensitiveOf(a) ==
    IF "caseSensitive" \in DOMAIN a THEN a.caseSensitive ELSE TRUE

\* args.contextLines ?? 0
ContextLinesOf(a) == IF "contextLines" \in DOMAIN a THEN a.contextLines ELSE 0

\* args.maxMatchesPerFile ?? 50
MaxMatchesPerFileOf(a) ==
    IF "maxMatchesPerFile" \in DOMAIN a THEN a.maxMatchesPerFile
    ELSE DefaultMaxMatchesPerFile

\* lines is the 1-based sequence of the lines; i is the 0-based line offset
ContextLine(lines, b) == [lineNumber |-> b + 1, line |-> lines[b + 1]]

\* Mutant: the lines before start one line earlier
ContextBeforeOneMore(lines, i, contextLines) ==
    LET first == Max(0, i - contextLines - 1)
    IN  [k \in 1..(i - first) |-> ContextLine(lines, first + k - 1)]

\* for (let b = Math.max(0, i - contextLines); b < i; b++)
ContextBefore(lines, i, contextLines) ==
    LET first == Max(0, i - contextLines)
    IN  [k \in 1..(i - first) |-> ContextLine(lines, first + k - 1)]

\* for (let a = i + 1; a <= Math.min(lines.length - 1, i + contextLines); a++)
ContextAfter(lines, i, contextLines) ==
    LET last == Min(Len(lines) - 1, i + contextLines)
    IN  [k \in 1..(last - i) |-> ContextLine(lines, i + k)]

\* match.context is set when contextLines > 0
WithContext(match, lines, i, contextLines) ==
    IF contextLines > 0
    THEN match @@ [context |-> [before |-> ContextBefore(lines, i, contextLines),
                                after |-> ContextAfter(lines, i, contextLines)]]
    ELSE match

\* Math.round(similarity * 100) / 100, in hundredths
RoundedSimilarity(similarity) ==
    (200 * similarity.num + similarity.den) \div (2 * similarity.den)

RECURSIVE PushFuzzyMatchesUncapped(_, _, _, _, _, _)
\* Mutant: every fuzzy match of a line is pushed, the cap is looked at only
\* between two lines
PushFuzzyMatchesUncapped(fuzzyMatches, k, lines, i, a, matches) ==
    IF k > Len(fuzzyMatches)
    THEN matches
    ELSE PushFuzzyMatchesUncapped(fuzzyMatches, k + 1, lines, i, a,
            Append(matches,
                   WithContext([lineNumber |-> i + 1, line |-> lines[i + 1],
                                similarity |->
                                    RoundedSimilarity(fuzzyMatches[k].similarity),
                                matchedText |-> fuzzyMatches[k].matched],
                               lines, i, ContextLinesOf(a))))

RECURSIVE PushFuzzyMatches(_, _, _, _, _, _)
\* for (const fm of fuzzyMatches), from the k-th match on
PushFuzzyMatches(fuzzyMatches, k, lines, i, a, matches) ==
    IF k > Len(fuzzyMatches) \/ Len(matches) >= MaxMatchesPerFileOf(a)
    THEN matches
    ELSE PushFuzzyMatches(fuzzyMatches, k + 1, lines, i, a,
            Append(matches,
                   WithContext([lineNumber |-> i + 1, line |-> lines[i + 1],
                                similarity |->
                                    RoundedSimilarity(fuzzyMatches[k].similarity),
                                matchedText |-> fuzzyMatches[k].matched],
                               lines, i, ContextLinesOf(a))))

RECURSIVE FuzzyScan(_, _, _, _, _)
\* the loop over the lines in fuzzy mode, from line offset i on
FuzzyScan(lines, pattern, a, i, matches) ==
    IF i >= Len(lines) \/ Len(matches) >= MaxMatchesPerFileOf(a) THEN matches
    ELSE FuzzyScan(lines, pattern, a, i + 1,
            PushFuzzyMatches(
                findFuzzyMatches(lines[i + 1], pattern, FuzzyThresholdOf(a),
                                 CaseSensitiveOf(a)),
                1, lines, i, a, matches))

RECURSIVE RegexScan(_, _, _, _, _)
\* the loop over the lines in regex or literal mode, from line offset i on
RegexScan(lines, regex, a, i, matches) ==
    IF i >= Len(lines) \/ Len(matches) >= MaxMatchesPerFileOf(a) THEN matches
    ELSE RegexScan(lines, regex, a, i + 1,
            IF RegexTest(regex, lines[i + 1])
            THEN Append(matches,
                        WithContext([lineNumber |-> i + 1, line |-> lines[i + 1]],
                                    lines, i, ContextLinesOf(a)))
            ELSE matches)

\* the regular expression of a search: the pattern itself, or the pattern
\* with its special characters escaped
SearchRegex(pattern, a) ==
    NewRegExp(IF IsRegexOf(a) THEN pattern ELSE EscapeRegex(pattern),
              CaseSensitiveOf(a))

\* Mutant: a failed search returns an empty list of matches too
FailedSearchWithMatches(search, error) ==
    [path |-> search.path, pattern |-> search.pattern, success |-> FALSE,
     error |-> error, matchCount |-> 0, matches |-> <<>>]

FailedSearch(search, error) ==
    [path |-> search.path, pattern |-> search.pattern, success |-> FALSE,
     error |-> error]

SucceededSearch(search, lines, matches) ==
    [path |-> search.path, pattern |-> search.pattern, success |-> TRUE,
     totalLines |-> Len(lines), matchCount |-> Len(matches),
     matches |-> matches]

\* The callback of args.searches.map for one search: its FileSearchResult
SearchFile(fsys, search, a) ==
    LET lines == LinesOf(ReadFileSync(fsys, search.path))
        regex == SearchRegex(search.pattern, a)
    IN  IF ReadThrows(fsys, search.path)
        THEN FailedSearch(search, [msg |-> ReadErrorMessage(fsys, search.path)])
        ELSE IF IsFuzzyOf(a)
        THEN SucceededSearch(search, lines,
                             FuzzyScan(lines, search.pattern, a, 0, <<>>))
        ELSE IF ~regex.valid
        THEN FailedSearch(search, [msg |-> "Invalid regex"])
        ELSE SucceededSearch(search, lines, RegexScan(lines, regex, a, 0, <<>>))

\* a search that has not settled yet
Pending == [pending |-> TRUE]

\* Mutant: a settled search takes the first place still free
StoreInSettlingOrder(rs, k, r) ==
    [rs EXCEPT ![CHOOSE i \in 1..Len(rs) :
                    /\ rs[i] = Pending
                    /\ \A j \in 1..(i - 1) : rs[j] # Pending] = r]

\* Promise.all keeps the value of the k-th promise at the k-th place
StoreResult(rs, k, r) == [rs EXCEPT ![k] = r]

RECURSIVE SumMatchCounts(_)
\* results.reduce((sum, r) => sum + (r.matchCount || 0), 0)
SumMatchCounts(rs) ==
    IF Len(rs) = 0 THEN 0
    ELSE (IF "matchCount" \in DOMAIN rs[1] THEN rs[1].matchCount ELSE 0)
         + SumMatchCounts(Tail(rs))

SearchModeOf(a) ==
    IF IsFuzzyOf(a) THEN "fuzzy" ELSE IF IsRegexOf(a) THEN "regex" ELSE "literal"

BatchSearchResponse(a, rs) ==
    [summary |-> [total |-> Len(a.searches),
                  successful |-> CountWhere(rs, TRUE),
                  failed |-> CountWhere(rs, FALSE),
                  totalMatches |-> SumMatchCounts(rs),
                  searchMode |-> SearchModeOf(a)],
     results |-> rs,
     isError |-> CountWhere(rs, FALSE) > 0 /\ CountWhere(rs, TRUE) = 0]

-----------------------------------------------------------------------------
(* handleSearchInFile                                                      *)

DefaultMaxMatches == 100

\* args.maxMatches ?? 100
MaxMatchesOf(a) ==
    IF "maxMatches" \in DOMAIN a THEN a.maxMatches ELSE DefaultMaxMatches

RECURSIVE SearchInFileScan(_, _, _, _, _)
\* for (let i = 0; i < lines.length && matches.length < maxMatches; i++),
\* from line offset i on: the matches and the value of i the loop ends with
SearchInFileScan(lines, regex, a, i, matches) ==
    IF i >= Len(lines) \/ Len(matches) >= MaxMatchesOf(a)
    THEN [matches |-> matches, i |-> i]
    ELSE SearchInFileScan(lines, regex, a, i + 1,
            IF RegexTest(regex, lines[i + 1])
            THEN Append(matches,
                        WithContext([lineNumber |-> i + 1, line |-> lines[i + 1]],
                                    lines, i, ContextLinesOf(a)))
            ELSE matches)

\* matches.length >= maxMatches
Truncated(matches, a) == Len(matches) >= MaxMatchesOf(a)

\* The whole handler on the file system fsys: the response and the value
\* the loop variable ends with
SearchInFile(fsys, a) ==
    LET lines == LinesOf(ReadFileSync(fsys, a.path))
        regex == SearchRegex(a.pattern, a)
        scan == SearchInFileScan(lines, regex, a, 0, <<>>)
    IN  IF ReadThrows(fsys, a.path)
        THEN [response |-> ErrorResponse([msg |-> "Error searching file",
                                          error |-> ReadErrorMessage(fsys, a.path)]),
              i |-> 0]
        ELSE IF ~regex.valid
        THEN [response |-> ErrorResponse([msg |-> "Error: Invalid regex pattern"]),
              i |-> 0]
        ELSE [response |-> OkResponse([path |-> a.path,
                                       pattern |-> a.pattern,
                                       totalLines |-> Len(lines),
                                       matchCount |-> Len(scan.matches),
                                       truncated |-> Truncated(scan.matches, a),
                                       matches |-> scan.matches]),
              i |-> scan.i]

-----------------------------------------------------------------------------
(* The audit sink and the handlers that await it.                          *)

\* the most calls of logAudit one request makes: the call in the try block
\* and the call in the catch block that handles its failure
MaxAuditCalls == 2

AuditOutcomes == {"resolves", "rejects"}

\* what the sink does with the first, the second, ... call of a request
AuditSinks == [1..MaxAuditCalls -> AuditOutcomes]

\* await logAudit(...): the n-th call of the request completes, or fails and
\* the await throws
LogAudit(sink, n) == sink[n] = "resolves"

\* the promise of the handler is rejected: the caller gets no result of the
\* handler
Rejected == [rejected |-> TRUE]

\* handleStrReplace with its audit calls: an empty oldStr returns before any
\* call; a throwing read is audited in the catch block; every other path
\* awaits logAudit in the try block, after the write if there is one, and a
\* failure of that call goes to the catch block
StrReplaceAudited(fsys, a, sink) ==
    LET o == StrReplace(fsys, a)
    IN  IF Len(OldStrOf(a)) = 0 THEN o
        ELSE IF ExistsSync(fsys, a.path) /\ ReadThrows(fsys, a.path)
        THEN [o EXCEPT !.response = IF LogAudit(sink, 1) THEN o.response
                                    ELSE Rejected]
        ELSE [o EXCEPT !.response =
                 IF LogAudit(sink, 1) THEN o.response
                 ELSE IF LogAudit(sink, 2)
                 THEN ErrorResponse([msg |-> "audit failure"])
                 ELSE Rejected]

RECURSIVE ReplaceItems(_, _, _, _)
\* the for loop of handleBatchStrReplace from the item at idx on: it holds
\* no await and runs to its end in one turn
ReplaceItems(fsys, a, idx, rs) ==
    IF idx >= Len(a.replacements) THEN [results |-> rs, files |-> fsys]
    ELSE LET o == ReplaceItem(fsys, a.replacements[idx + 1], idx)
         IN  IF LoopEnds(a, o.result, idx)
             THEN [results |-> Append(rs, o.result), files |-> o.files]
             ELSE ReplaceItems(o.files, a, idx + 1, Append(rs, o.result))

\* a handler that awaits logAudit once, outside any try block, before it
\* returns
AuditedOnce(resp, sink) == IF LogAudit(sink, 1) THEN resp ELSE Rejected

\* handleSearchInFile with its audit calls: an invalid regex returns before
\* any call; a throwing read is audited in the catch block; a finished scan
\* awaits logAudit in the try block
SearchInFileAudited(fsys, a, sink) ==
    LET resp == SearchInFile(fsys, a).response
    IN  IF ReadThrows(fsys, a.path) THEN AuditedOnce(resp, sink)
        ELSE IF ~SearchRegex(a.pattern, a).valid THEN resp
        ELSE IF LogAudit(sink, 1) THEN resp
        ELSE IF LogAudit(sink, 2)
        THEN ErrorResponse([msg |-> "Error searching file",
                            error |-> "audit failure"])
        ELSE Rejected

\* the results of handleBatchSearchInFiles
SearchFiles(fsys, a) ==
    [k \in 1..Len(a.searches) |-> SearchFile(fsys, a.searches[k], a)]

-----------------------------------------------------------------------------
(* The requests the model draws.                                           *)

X == <<"X">>

Y == <<"Y">>

\* the texts file f may hold when the request arrives
FileTexts ==
    {<<>>, <<"a", "X", "b">>, <<"a", "X", "b", "X", "c">>, <<"X", "X", "X">>}

\* path g is missing, a directory or a small file
InitialFiles ==
    {[p \in Paths |-> IF p = "f" THEN RegularFile(t) ELSE other] :
        t \in FileTexts, other \in {NoFile, Directory, RegularFile(X)}}

OldTexts == {<<>>, X, Y, <<"X", "b">>, <<"c">>, <<"X", "X">>}

NewTexts == {<<>>, Y, <<"X", "Y">>, <<"$", "&">>, <<"$", "$">>,
             <<"$", GraveAccent>>, <<"$", Apostrophe>>, <<"$", "1">>,
             <<"Y", "$">>}

StrReplaceArgs ==
    {[path |-> p, oldText |-> o, newText |-> n] :
        p \in Paths, o \in OldTexts, n \in NewTexts}
    \cup {[path |-> p, oldText |-> o] : p \in Paths, o \in OldTexts}
    \cup {[path |-> p, old_str |-> o, new_str |-> Y] : p \in Paths, o \in {<<>>, X}}
    \cup {[path |-> p] : p \in Paths}

\* the items a batch_str_replace request is made of
Replacements ==
    {[path |-> "f", oldText |-> X, newText |-> Y],
     [path |-> "f", oldText |-> X, newText |-> <<"X", "Y">>, replaceAll |-> TRUE],
     [path |-> "f", oldText |-> Y, replaceAll |-> FALSE],
     [path |-> "f", oldText |-> <<>>, newText |-> Y],
     [path |-> "f", oldText |-> <<>>, newText |-> Y, replaceAll |-> TRUE],
     [path |-> "f", oldText |-> <<"X", "b">>, newText |-> <<"$", "$">>],
     [path |-> "f", oldText |-> <<"X", "X">>, newText |-> Y, replaceAll |-> TRUE],
     [path |-> "g", oldText |-> X, newText |-> <<"$", "&">>, replaceAll |-> FALSE]}

SeqsUpTo(S, n) == UNION {[1..k -> S] : k \in 0..n}

BatchStrReplaceArgs ==
    {[replacements |-> r] : r \in SeqsUpTo(Replacements, MaxBatch)}
    \cup {[replacements |-> r, stopOnError |-> b] :
            r \in SeqsUpTo(Replacements, MaxBatch), b \in BOOLEAN}

\* the texts file f may hold when a search request arrives
SearchTexts ==
    {<<>>,
     <<"a", ".", "\n", "A", "\n", "x", "a">>,
     <<"a", "b", "a", "\n", "a", "*">>}

SearchInitialFiles ==
    {[p \in Paths |-> IF p = "f" THEN RegularFile(t) ELSE other] :
        t \in SearchTexts, other \in {NoFile, Directory, RegularFile(<<"a">>)}}

\* the searches a batch_search_in_files request is made of
Searches ==
    {[path |-> "f", pattern |-> <<"a">>],
     [path |-> "f", pattern |-> <<"a", ".">>],
     [path |-> "f", pattern |-> <<"a", "*">>],
     [path |-> "f", pattern |-> <<"(">>],
     [path |-> "g", pattern |-> <<"a">>],
     [path |-> "g", pattern |-> <<"*">>]}

\* the options of a batch_search_in_files request
SearchOptions ==
    {[isRegex |-> FALSE],
     [isRegex |-> TRUE],
     [isRegex |-> TRUE, caseSensitive |-> FALSE, contextLines |-> 1],
     [caseSensitive |-> FALSE, maxMatchesPerFile |-> 1],
     [isFuzzy |-> TRUE],
     [isFuzzy |-> TRUE, maxMatchesPerFile |-> 1],
     [isRegex |-> TRUE, maxMatchesPerFile |-> 0],
     [isFuzzy |-> TRUE, isRegex |-> TRUE, fuzzyThreshold |-> Ratio(1, 2),
      caseSensitive |-> FALSE, contextLines |-> 1, maxMatchesPerFile |-> 2]}

BatchSearchArgs ==
    {[searches |-> q] : q \in SeqsUpTo(Searches, MaxSearches)}
    \cup {[searches |-> q] @@ o :
            q \in SeqsUpTo(Searches, MaxSearches), o \in SearchOptions}

\* the files a batch_write_files request is made of
FilesToWrite ==
    {[path |-> "f", content |-> Y],
     [path |-> "g", content |-> X],
     [path |-> "g", content |-> <<>>]}

BatchWriteFilesArgs == {[files |-> w] : w \in SeqsUpTo(FilesToWrite, MaxBatch)}

BatchReadFilesArgs == {[paths |-> q] : q \in SeqsUpTo(Paths, MaxSearches)}

\* the patterns of a search_in_file request
SearchPatterns ==
    {<<>>, <<"a">>, <<"A">>, <<"a", ".">>, <<"a", "*">>, <<"(">>, <<"x", "a">>}

\* the options of a search_in_file request
SearchInFileOptions ==
    {o @@ c : o \in {[path |-> "f"],
                     [path |-> "f", isRegex |-> TRUE],
                     [path |-> "f", isRegex |-> FALSE, caseSensitive |-> FALSE],
                     [path |-> "f", isRegex |-> TRUE, caseSensitive |-> FALSE,
                      contextLines |-> 1],
                     [path |-> "f", contextLines |-> 2],
                     [path |-> "g", caseSensitive |-> TRUE]},
              c \in {[contextLines |-> 0]} \cup
                    {[maxMatches |-> n] : n \in 0..MaxCap}}

SearchInFileArgs ==
    {[pattern |-> q] @@ o : q \in SearchPatterns, o \in SearchInFileOptions}

Letters == {"a", "b"}

\* the strings levenshteinDistance and similarityRatio are called with
Strings == SeqsUpTo(Letters, MaxStrLen)

\* the lines findFuzzyMatches is called with
FuzzyLines ==
    SeqsUpTo(Letters, MaxLineLen)
    \cup {<<"c", "o", "l", "o", "r">>, <<"a", "a", "a", "a", "a">>, <<"A", "b">>}

\* the patterns findFuzzyMatches is called with
FuzzyPatterns ==
    SeqsUpTo(Letters, MaxStrLen) \cup {<<"c", "o", "l", "o", "u", "r">>}

\* the thresholds findFuzzyMatches is called with: 0.5, 0.7, 0.95 and 1
FuzzyThresholds ==
    {Ratio(1, 2), DefaultFuzzyThreshold, Ratio(19, 20), Ratio(1, 1)}

NoArgs == <<>>

NoResponse == <<>>

-----------------------------------------------------------------------------
(* The state machine: one request is received and handled.                 *)

Init ==
    /\ files \in InitialFiles
    /\ files0 = files
    /\ filesPrev = files
    /\ pc = "idle"
    /\ tool = "none"
    /\ args = NoArgs
    /\ index = 0
    /\ results = <<>>
    /\ response = NoResponse
    /\ settled = {}
    /\ fsLog = <<>>
    /\ inflight = <<>>
    /\ running = "none"

\* str_replace: the handler makes no asynchronous call before its last
\* file-system call, so it is one step
handleStrReplace ==
    /\ pc = "idle"
    /\ \E a \in StrReplaceArgs :
         LET o == StrReplace(files, a)
         IN  /\ tool' = "str_replace"
             /\ args' = a
             /\ files' = o.files
             /\ response' = o.response
             /\ fsLog' = fsLog \o o.calls
    /\ pc' = "done"
    /\ UNCHANGED <<inflight, running, index, results, files0, filesPrev, settled>>

\* batch_str_replace is called: results = [], index = 0
handleBatchStrReplaceStart ==
    /\ pc = "idle"
    /\ \E a \in BatchStrReplaceArgs :
         /\ args' = a
         /\ pc' = IF Len(a.replacements) = 0 THEN "summary" ELSE "loop"
    /\ tool' = "batch_str_replace"
    /\ index' = 0
    /\ results' = <<>>
    /\ UNCHANGED <<inflight, running, files, response, files0, filesPrev, settled, fsLog>>

\* one iteration of the for loop, with its break or its index++
handleBatchStrReplaceItem ==
    /\ pc = "loop"
    /\ tool = "batch_str_replace"
    /\ LET o == ReplaceItem(BatchFiles, args.replacements[index + 1], index)
       IN  /\ results' = Append(results, o.result)
           /\ files' = o.files
           /\ fsLog' = fsLog \o o.calls
           /\ IF LoopEnds(args, o.result, index)
              THEN pc' = "summary" /\ index' = index
              ELSE pc' = "loop" /\ index' = index + 1
    /\ filesPrev' = files
    /\ UNCHANGED <<inflight, running, tool, args, response, files0, settled>>

\* after the loop: the summary and the response
handleBatchStrReplaceReturn ==
    /\ pc = "summary"
    /\ tool = "batch_str_replace"
    /\ response' = BatchStrReplaceResponse(args, results)
    /\ pc' = "done"
    /\ UNCHANGED <<inflight, running, files, tool, args, index, results, files0, filesPrev, settled,
                   fsLog>>

\* batch_write_files: the callbacks have run, in array order, when map
\* returns, and nothing else touches the files before the response
handleBatchWriteFiles ==
    /\ pc = "idle"
    /\ \E a \in BatchWriteFilesArgs :
         LET o == WriteItems(files, a.files, 1, <<>>)
         IN  /\ args' = a
             /\ results' = o.results
             /\ files' = o.files
             /\ response' = BatchWriteFilesResponse(a, o.results)
             /\ fsLog' = fsLog \o [k \in 1..Len(a.files) |->
                                     FsCall("writeFileSync", a.files[k].path, k - 1)]
    /\ tool' = "batch_write_files"
    /\ pc' = "done"
    /\ UNCHANGED <<inflight, running, index, files0, filesPrev, settled>>

Next ==
    \/ handleStrReplace
    \/ handleBatchStrReplaceStart
    \/ handleBatchStrReplaceItem
    \/ handleBatchStrReplaceReturn
    \/ handleBatchWriteFiles

Spec == Init /\ [][Next]_vars

-----------------------------------------------------------------------------
(* The state machine of a search request.                                  *)

InitSearch ==
    /\ files \in SearchInitialFiles
    /\ files0 = files
    /\ filesPrev = files
    /\ pc = "idle"
    /\ tool = "none"
    /\ args = NoArgs
    /\ index = 0
    /\ results = <<>>
    /\ response = NoResponse
    /\ settled = {}
    /\ fsLog = <<>>
    /\ inflight = <<>>
    /\ running = "none"

\* batch_search_in_files is called: one promise for each search
handleBatchSearchInFilesStart ==
    /\ pc = "idle"
    /\ \E a \in BatchSearchArgs :
         /\ args' = a
         /\ results' = [k \in 1..Len(a.searches) |-> Pending]
    /\ tool' = "batch_search_in_files"
    /\ pc' = "map"
    /\ settled' = {}
    /\ UNCHANGED <<inflight, running, files, index, response, files0, filesPrev, fsLog>>

\* the callback of one search runs and its promise settles; the model lets
\* the searches settle in any order, array order among them
handleBatchSearchInFilesItem ==
    /\ pc = "map"
    /\ tool = "batch_search_in_files"
    /\ \E k \in (1..Len(args.searches)) \ settled :
         /\ results' = StoreResult(results, k, SearchFile(files, args.searches[k], args))
         /\ settled' = settled \cup {k}
         /\ fsLog' = Append(fsLog,
                            FsCall("readFileSync", args.searches[k].path, k - 1))
         /\ files' = AfterReadFileSync(files, args.searches[k].path)
    /\ UNCHANGED <<inflight, running, pc, tool, args, index, response, files0, filesPrev>>

\* every promise has settled: the summary and the response
handleBatchSearchInFilesReturn ==
    /\ pc = "map"
    /\ tool = "batch_search_in_files"
    /\ settled = 1..Len(args.searches)
    /\ response' = BatchSearchResponse(args, results)
    /\ pc' = "done"
    /\ UNCHANGED <<inflight, running, files, tool, args, index, results, files0, filesPrev, settled,
                   fsLog>>

\* batch_read_files: the callbacks have run, in array order, when map
\* returns
handleBatchReadFiles ==
    /\ pc = "idle"
    /\ \E a \in BatchReadFilesArgs :
         /\ args' = a
         /\ results' = ReadItems(files, a.paths)
         /\ response' = BatchReadFilesResponse(a, ReadItems(files, a.paths))
         /\ fsLog' = fsLog \o [k \in 1..Len(a.paths) |->
                                 FsCall("readFileSync", a.paths[k], k - 1)]
    /\ tool' = "batch_read_files"
    /\ pc' = "done"
    /\ UNCHANGED <<inflight, running, files, index, files0, filesPrev, settled>>

\* search_in_file: the file is read and scanned in one step; index keeps
\* the value the loop variable ends with
handleSearchInFile ==
    /\ pc = "idle"
    /\ \E a \in SearchInFileArgs :
         LET o == SearchInFile(files, a)
         IN  /\ args' = a
             /\ response' = o.response
             /\ index' = o.i
             /\ fsLog' = Append(fsLog, FsCall("readFileSync", a.path, 0))
             /\ files' = AfterReadFileSync(files, a.path)
    /\ tool' = "search_in_file"
    /\ pc' = "done"
    /\ UNCHANGED <<inflight, running, results, files0, filesPrev, settled>>

NextSearch ==
    \/ handleBatchSearchInFilesStart
    \/ handleBatchSearchInFilesItem
    \/ handleBatchSearchInFilesReturn
    \/ handleBatchReadFiles
    \/ handleSearchInFile

SpecSearch == InitSearch /\ [][NextSearch]_vars

-----------------------------------------------------------------------------
(* The state machine of one call of a function of the fuzzy matcher.       *)

InitFuzzy ==
    /\ files = [p \in Paths |-> NoFile]
    /\ files0 = files
    /\ filesPrev = files
    /\ pc = "idle"
    /\ tool = "none"
    /\ args = NoArgs
    /\ index = 0
    /\ results = <<>>
    /\ response = NoResponse
    /\ settled = {}
    /\ fsLog = <<>>
    /\ inflight = <<>>
    /\ running = "none"

CallLevenshteinDistance ==
    /\ pc = "idle"
    /\ \E s1 \in Strings, s2 \in Strings :
         /\ args' = [s1 |-> s1, s2 |-> s2]
         /\ response' = levenshteinDistance(s1, s2)
    /\ tool' = "levenshteinDistance"
    /\ pc' = "done"
    /\ UNCHANGED <<inflight, running, files, index, results, files0, filesPrev, settled, fsLog>>

CallSimilarityRatio ==
    /\ pc = "idle"
    /\ \E s1 \in Strings, s2 \in Strings :
         /\ args' = [s1 |-> s1, s2 |-> s2]
         /\ response' = similarityRatio(s1, s2)
    /\ tool' = "similarityRatio"
    /\ pc' = "done"
    /\ UNCHANGED <<inflight, running, files, index, results, files0, filesPrev, settled, fsLog>>

CallFindFuzzyMatches ==
    /\ pc = "idle"
    /\ \E line \in FuzzyLines, pattern \in FuzzyPatterns,
          threshold \in FuzzyThresholds, caseSensitive \in BOOLEAN :
         /\ args' = [line |-> line, pattern |-> pattern, threshold |-> threshold,
                     caseSensitive |-> caseSensitive]
         /\ response' = findFuzzyMatches(line, pattern, threshold, caseSensitive)
    /\ tool' = "findFuzzyMatches"
    /\ pc' = "done"
    /\ UNCHANGED <<inflight, running, files, index, results, files0, filesPrev, settled, fsLog>>

NextFuzzy ==
    \/ CallLevenshteinDistance
    \/ CallSimilarityRatio
    \/ CallFindFuzzyMatches

SpecFuzzy == InitFuzzy /\ [][NextFuzzy]_vars

-----------------------------------------------------------------------------
(* The state machine of one request whose audit calls may fail.            *)

InitAudit ==
    /\ files \in InitialFiles \cup SearchInitialFiles
    /\ files0 = files
    /\ filesPrev = files
    /\ pc = "idle"
    /\ tool = "none"
    /\ args = NoArgs
    /\ index = 0
    /\ results = <<>>
    /\ response = NoResponse
    /\ settled = {}
    /\ fsLog = <<>>
    /\ inflight = <<>>
    /\ running = "none"

handleStrReplaceAudited ==
    /\ pc = "idle"
    /\ \E a \in StrReplaceArgs, sink \in AuditSinks :
         LET o == StrReplaceAudited(files, a, sink)
         IN  /\ args' = a
             /\ files' = o.files
             /\ response' = o.response
             /\ fsLog' = fsLog \o o.calls
    /\ tool' = "str_replace"
    /\ pc' = "done"
    /\ UNCHANGED <<inflight, running, index, results, files0, filesPrev, settled>>

handleBatchStrReplaceAudited ==
    /\ pc = "idle"
    /\ \E a \in BatchStrReplaceArgs, sink \in AuditSinks :
         LET o == ReplaceItems(files, a, 0, <<>>)
         IN  /\ args' = a
             /\ files' = o.files
             /\ results' = o.results
             /\ response' = AuditedOnce(BatchStrReplaceResponse(a, o.results), sink)
    /\ tool' = "batch_str_replace"
    /\ pc' = "done"
    /\ UNCHANGED <<inflight, running, index, files0, filesPrev, settled, fsLog>>

handleSearchInFileAudited ==
    /\ pc = "idle"
    /\ \E a \in SearchInFileArgs, sink \in AuditSinks :
         /\ args' = a
         /\ response' = SearchInFileAudited(files, a, sink)
    /\ tool' = "search_in_file"
    /\ pc' = "done"
    /\ UNCHANGED <<inflight, running, files, index, results, files0, filesPrev, settled, fsLog>>

handleBatchSearchInFilesAudited ==
    /\ pc = "idle"
    /\ \E a \in BatchSearchArgs, sink \in AuditSinks :
         /\ args' = a
         /\ results' = SearchFiles(files, a)
         /\ response' = AuditedOnce(BatchSearchResponse(a, SearchFiles(files, a)),
                                    sink)
    /\ tool' = "batch_search_in_files"
    /\ pc' = "done"
    /\ UNCHANGED <<inflight, running, files, index, files0, filesPrev, settled, fsLog>>

NextAudit ==
    \/ handleStrReplaceAudited
    \/ handleBatchStrReplaceAudited
    \/ handleSearchInFileAudited
    \/ handleBatchSearchInFilesAudited

SpecAudit == InitAudit /\ [][NextAudit]_vars

-----------------------------------------------------------------------------
(* The state machine of the requests handled together.  The handlers are   *)
(* async functions on the one thread of the process: a handler that has    *)
(* been called executes until it awaits, and only then may another handler *)
(* be called or resumed.                                                   *)

Requests == {"r1", "r2"}

\* the files when the first of the requests arrives
ConcurrentFiles ==
    {[p \in Paths |-> IF p = "f" THEN f ELSE RegularFile(X)] :
        f \in {RegularFile(<<"a", "X", "b">>), RegularFile(<<"X", "X", "X">>),
               NoFile}}

ConcurrentStrReplaceArgs ==
    {[path |-> "f", oldText |-> X, newText |-> Y],
     [path |-> "f", oldText |-> <<"b">>, newText |-> <<"c">>],
     [path |-> "f", oldText |-> Y, newText |-> <<"a">>],
     [path |-> "g", oldText |-> X]}

ConcurrentBatchStrReplaceArgs ==
    {[replacements |-> <<[path |-> "f", oldText |-> <<"a">>, newText |-> X,
                          replaceAll |-> TRUE],
                         [path |-> "g", oldText |-> X, newText |-> Y]>>],
     [replacements |-> <<[path |-> "f", oldText |-> Y, newText |-> <<"c">>],
                         [path |-> "f", oldText |-> <<"b">>]>>,
      stopOnError |-> TRUE],
     [replacements |-> <<[path |-> "f", oldText |-> X, replaceAll |-> TRUE]>>]}

\* a request that has not arrived
NotCalled ==
    [pc |-> "idle", tool |-> "none", args |-> NoArgs, index |-> 0,
     results |-> <<>>, content |-> NoFile, response |-> NoResponse]

\* a file-system call of the handler of request r
RequestCall(r, call, path, idx) ==
    [request |-> r, call |-> call, path |-> path, index |-> idx]

\* the replacement the handler is at: the request itself for str_replace,
\* args.replacements[index] for batch_str_replace
OpOf(q) ==
    IF q.tool = "str_replace" THEN q.args
    ELSE q.args.replacements[q.index + 1]

\* Mutant: the file is read with an awaited call, the handler gives the
\* thread away between its read and its write
SuspendsAfterRead(step) == step \in {"read", "audit"}

\* the steps at which a handler awaits: await logAudit(...) and nothing else
Suspends(step) == step = "audit"

\* the thread after a step of the handler of request r
ThreadAfter(r, step) == IF Suspends(step) THEN "none" ELSE r

\* the file system as the handler saw it when it read the path
AsRead(q) == [files EXCEPT ![OpOf(q).path] = q.content]

\* the validation and the write of the replacement the handler is at, from
\* the content it read
ValidateAndWrite(q) ==
    IF q.tool = "str_replace"
    THEN LET o == StrReplace(AsRead(q), q.args)
         IN  [result |-> o.response, files |-> o.files, calls |-> o.calls]
    ELSE ReplaceItem(AsRead(q), OpOf(q), q.index)

\* the handler called fs.writeFileSync
Wrote(o) == \E k \in 1..Len(o.calls) : o.calls[k].call = "writeFileSync"

\* what the caller of request q gets once await logAudit has settled
ResponseAfterAudit(q, sink) ==
    IF q.tool = "str_replace"
    THEN IF LogAudit(sink, 1) THEN q.response
         ELSE IF LogAudit(sink, 2)
         THEN ErrorResponse([msg |-> "audit failure"])
         ELSE Rejected
    ELSE AuditedOnce(BatchStrReplaceResponse(q.args, q.results), sink)

InitConcurrent ==
    /\ files \in ConcurrentFiles
    /\ files0 = files
    /\ filesPrev = files
    /\ pc = "idle"
    /\ tool = "none"
    /\ args = NoArgs
    /\ index = 0
    /\ results = <<>>
    /\ response = NoResponse
    /\ settled = {}
    /\ fsLog = <<>>
    /\ inflight = [r \in Requests |-> NotCalled]
    /\ running = "none"

\* the thread is free and the handler of a request that arrived is called
Receive(r) ==
    /\ running = "none"
    /\ inflight[r].pc = "idle"
    /\ \E t \in {"str_replace", "batch_str_replace"} :
         \E a \in IF t = "str_replace" THEN ConcurrentStrReplaceArgs
                  ELSE ConcurrentBatchStrReplaceArgs :
            inflight' = [inflight EXCEPT
                            ![r] = [NotCalled EXCEPT !.pc = "read", !.tool = t,
                                                     !.args = a]]
    /\ running' = r
    /\ UNCHANGED <<files, pc, tool, args, index, results, response, files0,
                   filesPrev, settled, fsLog>>

\* fs.existsSync and, for a path that exists, fs.readFileSync
ReadFile(r) ==
    /\ running = r
    /\ inflight[r].pc = "read"
    /\ LET q == inflight[r]
           path == OpOf(q).path
       IN  /\ inflight' = [inflight EXCEPT ![r] = [q EXCEPT !.content = files[path],
                                                            !.pc = "write"]]
           /\ fsLog' = fsLog
                       \o <<RequestCall(r, "existsSync", path, q.index)>>
                       \o IF ExistsSync(files, path)
                          THEN <<RequestCall(r, "readFileSync", path, q.index)>>
                          ELSE <<>>
    /\ running' = ThreadAfter(r, "read")
    /\ UNCHANGED <<files, pc, tool, args, index, results, response, files0,
                   filesPrev, settled>>

\* the occurrences are counted and, if the replacement is valid, the file
\* is written; a batch goes on to its next item or leaves the loop
WriteFile(r) ==
    /\ running = r
    /\ inflight[r].pc = "write"
    /\ LET q == inflight[r]
           path == OpOf(q).path
           o == ValidateAndWrite(q)
       IN  /\ files' = IF Wrote(o) THEN [files EXCEPT ![path] = o.files[path]]
                       ELSE files
           /\ fsLog' = IF Wrote(o)
                       THEN Append(fsLog,
                                   RequestCall(r, "writeFileSync", path, q.index))
                       ELSE fsLog
           /\ inflight' =
                [inflight EXCEPT ![r] =
                    IF q.tool = "str_replace"
                    THEN [q EXCEPT !.response = o.result, !.pc = "audit"]
                    ELSE IF LoopEnds(q.args, o.result, q.index)
                    THEN [q EXCEPT !.results = Append(q.results, o.result),
                                   !.pc = "audit"]
                    ELSE [q EXCEPT !.results = Append(q.results, o.result),
                                   !.index = q.index + 1,
                                   !.pc = "read"]]
    /\ running' = ThreadAfter(r, "write")
    /\ UNCHANGED <<pc, tool, args, index, results, response, files0, filesPrev,
                   settled>>

\* await logAudit(...): the handler waits for the audit sink
AwaitLogAudit(r) ==
    /\ running = r
    /\ inflight[r].pc = "audit"
    /\ inflight' = [inflight EXCEPT ![r].pc = "audited"]
    /\ running' = ThreadAfter(r, "audit")
    /\ UNCHANGED <<files, pc, tool, args, index, results, response, files0,
                   filesPrev, settled, fsLog>>

\* the thread is free and a handler that waits goes on
Resume(r) ==
    /\ running = "none"
    /\ inflight[r].pc \notin {"idle", "done"}
    /\ running' = r
    /\ UNCHANGED <<files, pc, tool, args, index, results, response, files0,
                   filesPrev, settled, fsLog, inflight>>

\* the audit call has settled and the handler returns, or its promise is
\* rejected
Return(r) ==
    /\ running = r
    /\ inflight[r].pc = "audited"
    /\ \E sink \in AuditSinks :
         inflight' = [inflight EXCEPT
                         ![r].response = ResponseAfterAudit(inflight[r], sink),
                         ![r].pc = "done"]
    /\ running' = "none"
    /\ UNCHANGED <<files, pc, tool, args, index, results, response, files0,
                   filesPrev, settled, fsLog>>

NextConcurrent ==
    \/ \E r \in Requests : Receive(r)
    \/ \E r \in Requests : ReadFile(r)
    \/ \E r \in Requests : WriteFile(r)
    \/ \E r \in Requests : AwaitLogAudit(r)
    \/ \E r \in Requests : Resume(r)
    \/ \E r \in Requests : Return(r)

SpecConcurrent == InitConcurrent /\ [][NextConcurrent]_vars

-----------------------------------------------------------------------------
(* Notions the properties are stated with.                                 *)

RECURSIVE CountNonOverlapping(_, _, _)
\* the occurrences of the non-empty t in s from offset i on, counted left to
\* right, each one starting where the one before it ended or later
CountNonOverlapping(s, t, i) ==
    IF i + Len(t) > Len(s) THEN 0
    ELSE IF OccursAt(s, t, i) THEN 1 + CountNonOverlapping(s, t, i + Len(t))
    ELSE CountNonOverlapping(s, t, i + 1)

RECURSIVE EachReplaced(_, _, _, _)
\* s from offset i on with each of those occurrences of t replaced by r, in
\* one pass over s
EachReplaced(s, t, r, i) ==
    IF i >= Len(s) THEN <<>>
    ELSE IF OccursAt(s, t, i) THEN r \o EachReplaced(s, t, r, i + Len(t))
    ELSE <<s[i + 1]>> \o EachReplaced(s, t, r, i + 1)

\* the offset of the one occurrence of t in s
OnlyOffset(s, t) == CHOOSE i \in 0..Len(s) : OccursAt(s, t, i)

IsFile(fsys, path) == fsys[path].kind = "file"

StrReplaceDone == pc = "done" /\ tool = "str_replace"

\* a batch_str_replace iteration has run; the latest one is that of LastOp
BatchItemDone == tool = "batch_str_replace" /\ Len(results) > 0

LastOp == args.replacements[Len(results)]

LastResult == results[Len(results)]

\* the text of the file of the latest item before and after its iteration
LastBefore == filesPrev[LastOp.path].content

LastAfter == files[LastOp.path].content

RECURSIVE FilesAfter(_)
\* the file system after the first k items ran one after another, each on
\* what the one before it left
FilesAfter(k) ==
    IF k = 0 THEN files0
    ELSE ReplaceItem(FilesAfter(k - 1), args.replacements[k], k - 1).files

\* the result of item k (1-based) run after the k - 1 items before it
ResultInTurn(k) ==
    ReplaceItem(FilesAfter(k - 1), args.replacements[k], k - 1).result

-----------------------------------------------------------------------------
(* Properties.                                                             *)

\* C1: str_replace, and a batch_str_replace item without replaceAll, whose
\* search text occurs more than once in the file fails, reports the number
\* of occurrences and leaves every file as it was.
C1_AmbiguousMatchFails ==
    /\ (/\ StrReplaceDone
        /\ IsFile(files0, args.path)
        /\ Len(OldStrOf(args)) > 0
        /\ CountNonOverlapping(files0[args.path].content, OldStrOf(args), 0) > 1)
       => /\ response.isError
          /\ response.text.msg = "String appears N times in file"
          /\ response.text.occurrences =
                CountNonOverlapping(files0[args.path].content, OldStrOf(args), 0)
          /\ files = files0
    /\ (/\ BatchItemDone
        /\ IsFile(filesPrev, LastOp.path)
        /\ ~ReplaceAllOf(LastOp)
        /\ Len(LastOp.oldText) > 0
        /\ CountNonOverlapping(LastBefore, LastOp.oldText, 0) > 1)
       => /\ ~LastResult.success
          /\ LastResult.error.msg = "String appears N times"
          /\ LastResult.error.occurrences =
                CountNonOverlapping(LastBefore, LastOp.oldText, 0)
          /\ files = filesPrev

\* C1 happens: a second item of a batch meets two occurrences of its text
C1_Witness ==
    /\ BatchItemDone
    /\ Len(results) = 2
    /\ IsFile(filesPrev, LastOp.path)
    /\ ~ReplaceAllOf(LastOp)
    /\ Len(LastOp.oldText) > 0
    /\ CountNonOverlapping(LastBefore, LastOp.oldText, 0) = 2
    /\ ~LastResult.success

\* C2: str_replace, and a batch_str_replace item with or without replaceAll,
\* whose search text does not occur in the file fails with "String not
\* found" and leaves every file as it was.
C2_NoMatchFails ==
    /\ (/\ StrReplaceDone
        /\ IsFile(files0, args.path)
        /\ Len(OldStrOf(args)) > 0
        /\ \A i \in 0..Len(files0[args.path].content) :
              ~OccursAt(files0[args.path].content, OldStrOf(args), i))
       => /\ response.isError
          /\ response.text.msg = "String not found in file"
          /\ files = files0
    /\ (/\ BatchItemDone
        /\ IsFile(filesPrev, LastOp.path)
        /\ Len(LastOp.oldText) > 0
        /\ \A i \in 0..Len(LastBefore) : ~OccursAt(LastBefore, LastOp.oldText, i))
       => /\ ~LastResult.success
          /\ LastResult.error.msg = "String not found"
          /\ files = filesPrev

\* C2 happens: a replaceAll item finds no occurrence in a non-empty file
C2_Witness ==
    /\ BatchItemDone
    /\ IsFile(filesPrev, LastOp.path)
    /\ ReplaceAllOf(LastOp)
    /\ Len(LastOp.oldText) > 0
    /\ Len(LastBefore) > 0
    /\ \A i \in 0..Len(LastBefore) : ~OccursAt(LastBefore, LastOp.oldText, i)
    /\ ~LastResult.success

\* C3: a replaceAll item whose non-empty search text occurs k >= 1 times
\* leaves the file with each of the k occurrences replaced in one pass, and
\* reports k replacements.
C3_ReplaceAllReplacesEach ==
    (/\ BatchItemDone
     /\ IsFile(filesPrev, LastOp.path)
     /\ ReplaceAllOf(LastOp)
     /\ Len(LastOp.oldText) > 0
     /\ CountNonOverlapping(LastBefore, LastOp.oldText, 0) >= 1)
    => /\ LastResult.success
       /\ LastResult.result.replacements =
             CountNonOverlapping(LastBefore, LastOp.oldText, 0)
       /\ LastAfter = EachReplaced(LastBefore, LastOp.oldText, NewTextOf(LastOp), 0)
       /\ \A p \in Paths \ {LastOp.path} : files[p] = filesPrev[p]

\* C3 happens: two occurrences are replaced by a text that contains the
\* search text
C3_Witness ==
    /\ BatchItemDone
    /\ IsFile(filesPrev, LastOp.path)
    /\ ReplaceAllOf(LastOp)
    /\ Len(LastOp.oldText) > 0
    /\ CountNonOverlapping(LastBefore, LastOp.oldText, 0) = 2
    /\ CountNonOverlapping(NewTextOf(LastOp), LastOp.oldText, 0) >= 1
    /\ LastResult.success

\* C4: without replaceAll, a search text that occurs exactly once is
\* replaced by the replacement text as it stands, character for character;
\* a replacement text left out deletes the occurrence.
C4_ReplacementTakenLiterally ==
    /\ (/\ StrReplaceDone
        /\ IsFile(files0, args.path)
        /\ Len(OldStrOf(args)) > 0
        /\ CountNonOverlapping(files0[args.path].content, OldStrOf(args), 0) = 1)
       => LET before == files0[args.path].content
              at == OnlyOffset(before, OldStrOf(args))
          IN  files[args.path].content =
                 Substring(before, 0, at) \o NewStrOf(args)
                 \o Substring(before, at + Len(OldStrOf(args)), Len(before))
    /\ (/\ BatchItemDone
        /\ IsFile(filesPrev, LastOp.path)
        /\ ~ReplaceAllOf(LastOp)
        /\ Len(LastOp.oldText) > 0
        /\ CountNonOverlapping(LastBefore, LastOp.oldText, 0) = 1)
       => LET at == OnlyOffset(LastBefore, LastOp.oldText)
          IN  LastAfter =
                 Substring(LastBefore, 0, at) \o NewTextOf(LastOp)
                 \o Substring(LastBefore, at + Len(LastOp.oldText), Len(LastBefore))

\* C5: an empty search text is rejected by str_replace and by every
\* batch_str_replace item: the outcome is a failure and no file changes.
C5_EmptySearchTextRejected ==
    /\ (StrReplaceDone /\ Len(OldStrOf(args)) = 0)
       => response.isError /\ files = files0
    /\ (BatchItemDone /\ Len(LastOp.oldText) = 0)
       => ~LastResult.success /\ files = filesPrev

\* C6: batch_str_replace runs its items one after another in request order:
\* the file-system calls of an item all come after those of the items before
\* it, and each item's result and write are those of the item run on what
\* the items before it left.
C6_ItemsRunInRequestOrder ==
    tool = "batch_str_replace"
    => /\ \A k \in 1..Len(results) : results[k] = ResultInTurn(k)
       /\ files = FilesAfter(Len(results))
       /\ \A i \in 1..(Len(fsLog) - 1) : fsLog[i].index <= fsLog[i + 1].index

\* C6 happens: the second item succeeds on the file of the first only
\* because the first one wrote it
C6_Witness ==
    /\ tool = "batch_str_replace"
    /\ Len(results) = 2
    /\ args.replacements[1].path = args.replacements[2].path
    /\ results[1].success
    /\ results[2].success
    /\ ~ReplaceItem(files0, args.replacements[2], 1).result.success

\* the batch loop is over
LoopOver == tool = "batch_str_replace" /\ pc \in {"summary", "done"}

\* the positions (1-based) of the items that fail when run in turn
FailingInTurn == {k \in 1..Len(args.replacements) : ~ResultInTurn(k).success}

\* the least member of a non-empty set of numbers
Least(S) == CHOOSE k \in S : \A j \in S : k <= j

\* C7: with stopOnError = true the batch stops at the first failing item:
\* the results are those of the items 0..f in order, all successes but the
\* last, nothing is read or written for a later item, and the response
\* returns these results.
C7_StopsAtFirstFailure ==
    (tool = "batch_str_replace" /\ StopOnErrorOf(args))
    => /\ \A k \in 1..Len(results) :
             /\ results[k].index = k - 1
             /\ k < Len(results) => results[k].success
       /\ \A i \in 1..Len(fsLog) : fsLog[i].index < Len(results)
       /\ (\E k \in 1..Len(results) : ~results[k].success) => pc # "loop"
       /\ LoopOver
          => LET failing == FailingInTurn
             IN  failing # {}
                 => LET first == Least(failing)
                    IN  /\ Len(results) = first
                        /\ ~results[first].success
                        /\ \A i \in 1..Len(fsLog) : fsLog[i].index < first
                        /\ files = FilesAfter(first - 1)
       /\ pc = "done" => response.results = results

\* C7 happens: the second of three items fails and the batch is over
C7_Witness ==
    /\ LoopOver
    /\ StopOnErrorOf(args)
    /\ Len(args.replacements) = 3
    /\ Len(results) = 2
    /\ results[1].success
    /\ ~results[2].success
    /\ ResultInTurn(3).success

\* C8: with stopOnError unset or false every one of the N items is
\* attempted and the response holds N results with the indices 0..N-1 in
\* order; whether an item succeeds is what it is for that item alone on the
\* file system it meets, whatever happened to the items before it.
C8_EveryItemAttempted ==
    (tool = "batch_str_replace" /\ pc = "done" /\ ~StopOnErrorOf(args))
    => /\ Len(response.results) = Len(args.replacements)
       /\ \A k \in 1..Len(response.results) :
             /\ response.results[k].index = k - 1
             /\ response.results[k].success
                   = ReplaceItem(FilesAfter(k - 1), args.replacements[k], 0)
                        .result.success
             /\ \E i \in 1..Len(fsLog) : fsLog[i].index = k - 1

\* C8 happens: of three items the second fails and the third succeeds
C8_Witness ==
    /\ tool = "batch_str_replace"
    /\ pc = "done"
    /\ "stopOnError" \notin DOMAIN args
    /\ Len(response.results) = 3
    /\ response.results[1].success
    /\ ~response.results[2].success
    /\ response.results[3].success

BatchSearchDone == pc = "done" /\ tool = "batch_search_in_files"

InvalidSources == {<<"(">>, <<"*">>}

\* the search is one that fails: its file cannot be read, or its pattern is
\* taken as a regular expression and is not one
SearchFails(search) ==
    \/ ~IsFile(files0, search.path)
    \/ ~IsFuzzyOf(args) /\ IsRegexOf(args) /\ search.pattern \in InvalidSources

\* C10: each of the N searches has one outcome, at the place of its request
\* and with its path and pattern; a failing search has success = false, an
\* error and no matches; and every outcome is the one the search has when
\* it is the only search of the request.
C10_OutcomesIndependent ==
    BatchSearchDone
    => /\ Len(response.results) = Len(args.searches)
       /\ \A k \in 1..Len(args.searches) :
             LET r == response.results[k]
                 search == args.searches[k]
             IN  /\ r.path = search.path
                 /\ r.pattern = search.pattern
                 /\ r.success = ~SearchFails(search)
                 /\ SearchFails(search)
                    => DOMAIN r = {"path", "pattern", "success", "error"}
                 /\ ~SearchFails(search)
                    => /\ "error" \notin DOMAIN r
                       /\ r.matchCount = Len(r.matches)
                 /\ r = SearchFile(files0, search, args)
       /\ files = files0

\* C10 happens: of two searches of the same file one has an invalid regular
\* expression and the other one finds a line
C10_Witness ==
    /\ BatchSearchDone
    /\ Len(args.searches) = 2
    /\ IsFile(files0, args.searches[1].path)
    /\ ~response.results[1].success
    /\ response.results[1].error.msg = "Invalid regex"
    /\ response.results[2].success
    /\ response.results[2].matchCount >= 1

BatchReadDone == pc = "done" /\ tool = "batch_read_files"

\* C11: the response of batch_search_in_files and of batch_read_files has
\* isError = true exactly when the batch has at least one item and every item
\* failed; a batch with a successful item is never flagged.
C11_IsErrorIffAllFailed ==
    /\ BatchSearchDone
       => (response.isError
           <=> /\ Len(args.searches) >= 1
               /\ \A k \in 1..Len(args.searches) : SearchFails(args.searches[k]))
    /\ BatchReadDone
       => (response.isError
           <=> /\ Len(args.paths) >= 1
               /\ \A k \in 1..Len(args.paths) : ~IsFile(files0, args.paths[k]))

\* C11 happens: one of the two paths of a batch_read_files request cannot be
\* read, the other one is read, and the response is not flagged
C11_Witness ==
    /\ BatchReadDone
    /\ Len(args.paths) = 2
    /\ ~IsFile(files0, args.paths[1])
    /\ IsFile(files0, args.paths[2])
    /\ response.results[2].success
    /\ ~response.isError

\* C12: the response of batch_write_files and of batch_str_replace has
\* isError = true whenever at least one item failed.
C12_AnyFailureIsError ==
    (pc = "done" /\ tool \in {"batch_write_files", "batch_str_replace"})
    => ((\E k \in 1..Len(response.results) : ~response.results[k].success)
        => response.isError)

SearchInFileDone == pc = "done" /\ tool = "search_in_file"

\* the searches of the batch that returned matches
Searched == {k \in 1..Len(response.results) : response.results[k].success}

C14_TruncatedIffCutShort ==
    (SearchInFileDone /\ ~response.isError)
    => (response.text.truncated <=> index < response.text.totalLines)

\* the line contains the pattern as a substring, letter case set aside
\* unless caseSensitive
Contains(line, pattern, caseSensitive) ==
    \E i \in 0..Len(line) :
        IF caseSensitive THEN OccursAt(line, pattern, i)
        ELSE OccursAt(ToLowerCase(line), ToLowerCase(pattern), i)

\* the numbers (1-based) of the lines of the file that contain the pattern
ContainingLines(path, pattern) ==
    LET lines == LinesOf(files0[path].content)
    IN  {n \in 1..Len(lines) : Contains(lines[n], pattern, CaseSensitiveOf(args))}

\* the matches are the lines of the file at path that contain the pattern,
\* each one once, in ascending order, with their numbers and texts
MatchesAreContainingLines(matches, path, pattern) ==
    LET lines == LinesOf(files0[path].content)
    IN  /\ Len(matches) = Cardinality(ContainingLines(path, pattern))
        /\ \A k \in 1..Len(matches) :
              /\ matches[k].lineNumber \in ContainingLines(path, pattern)
              /\ matches[k].line = lines[matches[k].lineNumber]
              /\ k > 1 => matches[k - 1].lineNumber < matches[k].lineNumber

\* C15: a literal search of a file with no more containing lines than the
\* cap succeeds and returns exactly the lines that contain the pattern as a
\* substring (letter case set aside when caseSensitive = false), each once,
\* with its 1-based number and its text, in ascending order; so it is for a
\* pattern made of regex metacharacters.
C15_LiteralMatchesAreSubstringLines ==
    /\ (/\ SearchInFileDone
        /\ ~IsRegexOf(args)
        /\ IsFile(files0, args.path)
        /\ Cardinality(ContainingLines(args.path, args.pattern)) <= MaxMatchesOf(args))
       => /\ ~response.isError
          /\ MatchesAreContainingLines(response.text.matches, args.path, args.pattern)
    /\ (BatchSearchDone /\ ~IsRegexOf(args) /\ ~IsFuzzyOf(args))
       => \A k \in 1..Len(args.searches) :
             LET search == args.searches[k]
             IN  (/\ IsFile(files0, search.path)
                  /\ Cardinality(ContainingLines(search.path, search.pattern))
                        <= MaxMatchesPerFileOf(args))
                 => /\ response.results[k].success
                    /\ MatchesAreContainingLines(response.results[k].matches,
                                                 search.path, search.pattern)

\* C15 happens: the literal pattern "a*" is found in one line of a file in
\* which every line matches the regular expression a*
C15_Witness ==
    /\ SearchInFileDone
    /\ ~IsRegexOf(args)
    /\ IsFile(files0, args.path)
    /\ args.pattern = <<"a", "*">>
    /\ ~response.isError
    /\ response.text.matchCount = 1
    /\ response.text.totalLines = 2
    /\ response.text.matches[1].lineNumber = 2

DistanceCalled == pc = "done" /\ tool = "levenshteinDistance"

SimilarityCalled == pc = "done" /\ tool = "similarityRatio"

FuzzyCalled == pc = "done" /\ tool = "findFuzzyMatches"

\* C16: levenshteinDistance(a, a) = 0, and levenshteinDistance(a, b) =
\* levenshteinDistance(b, a), empty strings included.
C16_DistanceZeroOnSelfAndSymmetric ==
    DistanceCalled
    => /\ args.s1 = args.s2 => response = 0
       /\ response = levenshteinDistance(args.s2, args.s1)

\* C16 happens: the distance from the empty string to a string of two
\* characters
C16_Witness ==
    /\ DistanceCalled
    /\ Len(args.s1) = 0
    /\ Len(args.s2) = 2
    /\ response = 2

\* the strings one insertion, one deletion or one substitution away from s
Edits(s) ==
    {SubSeq(s, 1, i - 1) \o SubSeq(s, i + 1, Len(s)) : i \in 1..Len(s)}
    \cup {SubSeq(s, 1, i) \o <<c>> \o SubSeq(s, i + 1, Len(s)) :
            i \in 0..Len(s), c \in Letters}
    \cup {[s EXCEPT ![i] = c] : i \in 1..Len(s), c \in Letters}

RECURSIVE WithinEdits(_, _)
\* the strings n edits or fewer away from a string of S
WithinEdits(S, n) ==
    IF n = 0 THEN S
    ELSE WithinEdits(S \cup UNION {Edits(s) : s \in S}, n - 1)

\* the least number of edits that turn a into b
MinEdits(a, b) ==
    CHOOSE n \in 0..(Len(a) + Len(b)) :
        /\ b \in WithinEdits({a}, n)
        /\ n > 0 => b \notin WithinEdits({a}, n - 1)

\* C17: levenshteinDistance(a, b) is the least number of insertions,
\* deletions and substitutions of one character that turn a into b, empty
\* strings included.
C17_DistanceIsLeastNumberOfEdits ==
    DistanceCalled => response = MinEdits(args.s1, args.s2)

\* C17 happens: two strings of different lengths, neither a part of the
\* other, two edits apart
C17_Witness ==
    /\ DistanceCalled
    /\ args.s1 = <<"a", "a", "b">>
    /\ args.s2 = <<"b", "a">>
    /\ response = 2

\* C18: similarityRatio(a, b) is in [0, 1], the distance being at least 0
\* and at most the length of the longer string; for two empty strings it
\* is 1.
C18_SimilarityWithinUnitInterval ==
    /\ SimilarityCalled
       => /\ response.den > 0
          /\ 0 <= response.num
          /\ response.num <= response.den
          /\ (Len(args.s1) = 0 /\ Len(args.s2) = 0) => response.num = response.den
    /\ DistanceCalled
       => /\ 0 <= response
          /\ response <= Max(Len(args.s1), Len(args.s2))

\* C18 happens: two strings of different lengths with no character in
\* common have the similarity 0
C18_Witness ==
    /\ SimilarityCalled
    /\ Len(args.s1) = 1
    /\ Len(args.s2) = 3
    /\ response.num = 0

\* C19: the matches findFuzzyMatches returns for a line do not overlap: the
\* spans [start, end) of any two of them have no offset in common.
C19_MatchesDoNotOverlap ==
    FuzzyCalled
    => \A i \in 1..Len(response) : \A j \in (i + 1)..Len(response) :
          \/ response[i].end <= response[j].start
          \/ response[j].end <= response[i].start

\* the call of the scenario: the line "color" and the pattern "colour"
ColorCalled ==
    /\ FuzzyCalled
    /\ args.line = <<"c", "o", "l", "o", "r">>
    /\ args.pattern = <<"c", "o", "l", "o", "u", "r">>

\* C20: the line "color" and the pattern "colour" give one match at the
\* threshold 0.7, the whole line with the similarity 1 - 1/6, and no match
\* at the threshold 0.95.
C20_ColorMatchesColour ==
    /\ (ColorCalled /\ args.threshold = Ratio(7, 10))
       => /\ Len(response) = 1
          /\ response[1].start = 0
          /\ response[1].end = 5
          /\ response[1].matched = args.line
          /\ 6 * response[1].similarity.num = 5 * response[1].similarity.den
    /\ (ColorCalled /\ args.threshold = Ratio(19, 20))
       => Len(response) = 0

\* C20 happens: the scenario was called at 0.7 and returned a match
C20_Witness ==
    /\ ColorCalled
    /\ args.threshold = Ratio(7, 10)
    /\ args.caseSensitive
    /\ Len(response) = 1

\* C21: every match findFuzzyMatches returns for a pattern of length L has a
\* window length end - start that is one of L-2, L-1, L, L+1, L+2 and is at
\* least 2, whatever L is, 0 and 1 included.
C21_WindowLengthsAllowed ==
    FuzzyCalled
    => \A k \in 1..Len(response) :
          LET windowLen == response[k].end - response[k].start
              L == Len(args.pattern)
          IN  /\ windowLen \in (L - 2)..(L + 2)
              /\ windowLen >= 2

\* the context of the match is that of c lines around its line in lines:
\* the lines max(1, n-c)..n-1 before and n+1..min(T, n+c) after, in order,
\* each with its number and its text
ContextIsExact(match, lines, c) ==
    LET n == match.lineNumber
        lo == Max(1, n - c)
        hi == Min(Len(lines), n + c)
        before == match.context.before
        after == match.context.after
    IN  /\ Len(before) = n - lo
        /\ \A k \in 1..Len(before) :
              before[k] = [lineNumber |-> lo + k - 1, line |-> lines[lo + k - 1]]
        /\ Len(after) = hi - n
        /\ \A k \in 1..Len(after) :
              after[k] = [lineNumber |-> n + k, line |-> lines[n + k]]
        /\ Len(before) <= c
        /\ Len(after) <= c

\* C22: with contextLines = c > 0 every match, on line n of a file of T
\* lines, carries the lines max(1, n-c)..n-1 as before and the lines
\* n+1..min(T, n+c) as after, in ascending order, each with its text: at
\* most c entries on each side and none outside the file.
C22_ContextIsClippedWindow ==
    /\ (SearchInFileDone /\ ~response.isError /\ ContextLinesOf(args) > 0)
       => \A k \in 1..Len(response.text.matches) :
             /\ "context" \in DOMAIN response.text.matches[k]
             /\ ContextIsExact(response.text.matches[k],
                               LinesOf(files0[args.path].content),
                               ContextLinesOf(args))
    /\ (BatchSearchDone /\ ContextLinesOf(args) > 0)
       => \A j \in Searched : \A k \in 1..Len(response.results[j].matches) :
             /\ "context" \in DOMAIN response.results[j].matches[k]
             /\ ContextIsExact(response.results[j].matches[k],
                               LinesOf(files0[args.searches[j].path].content),
                               ContextLinesOf(args))

\* C22 happens: with contextLines = 2 a match on the second of three lines
\* has one line before and one line after, both cut at the ends of the file
C22_Witness ==
    /\ SearchInFileDone
    /\ ~response.isError
    /\ ContextLinesOf(args) = 2
    /\ response.text.totalLines = 3
    /\ \E k \in 1..Len(response.text.matches) :
          /\ response.text.matches[k].lineNumber = 2
          /\ Len(response.text.matches[k].context.before) = 1
          /\ Len(response.text.matches[k].context.after) = 1

\* C23: the result str_replace, batch_str_replace, search_in_file and
\* batch_search_in_files return is the one they return when the audit calls
\* complete, whether or not these fail: a str_replace that wrote the file
\* reports success, a batch returns its summary and its results.
C23_OutcomeIndependentOfAudit ==
    pc = "done"
    => response =
          CASE tool = "str_replace" -> StrReplace(files0, args).response
            [] tool = "batch_str_replace" ->
                  BatchStrReplaceResponse(args,
                      ReplaceItems(files0, args, 0, <<>>).results)
            [] tool = "search_in_file" -> SearchInFile(files0, args).response
            [] tool = "batch_search_in_files" ->
                  BatchSearchResponse(args, SearchFiles(files0, args))

\* C24: for a non-empty search text the count str_replace and
\* batch_str_replace go by is the number of occurrences met left to right,
\* the scan going on after the end of each one: no occurrence fails as not
\* found, one is replaced, several fail with that number or, with
\* replaceAll, are reported as that many replacements.  "XX" counts once in
\* "XXX" and is replaced as the only occurrence.
C24_CountIsLeftToRightNonOverlapping ==
    /\ (StrReplaceDone /\ IsFile(files0, args.path) /\ Len(OldStrOf(args)) > 0)
       => LET n == CountNonOverlapping(files0[args.path].content, OldStrOf(args), 0)
          IN  /\ n = 0 => /\ response.isError
                          /\ response.text.msg = "String not found in file"
              /\ n = 1 => ~response.isError
              /\ n > 1 => /\ response.isError
                          /\ response.text.occurrences = n
    /\ (BatchItemDone /\ IsFile(filesPrev, LastOp.path) /\ Len(LastOp.oldText) > 0)
       => LET n == CountNonOverlapping(LastBefore, LastOp.oldText, 0)
          IN  /\ n = 0 => /\ ~LastResult.success
                          /\ LastResult.error.msg = "String not found"
              /\ n = 1 => /\ LastResult.success
                          /\ LastResult.result.replacements = 1
              /\ (n > 1 /\ ~ReplaceAllOf(LastOp))
                 => /\ ~LastResult.success
                    /\ LastResult.error.occurrences = n
              /\ (n > 1 /\ ReplaceAllOf(LastOp))
                 => /\ LastResult.success
                    /\ LastResult.result.replacements = n

\* C24 happens: "XX" occurs at the offsets 0 and 1 of "XXX", counts once and
\* str_replace replaces it
C24_Witness ==
    /\ StrReplaceDone
    /\ IsFile(files0, args.path)
    /\ files0[args.path].content = <<"X", "X", "X">>
    /\ OldStrOf(args) = <<"X", "X">>
    /\ OccursAt(files0[args.path].content, OldStrOf(args), 0)
    /\ OccursAt(files0[args.path].content, OldStrOf(args), 1)
    /\ ~response.isError
    /\ files[args.path].content # files0[args.path].content

\* the spans [start, end) of the two matches have an offset in common
SpansIntersect(m1, m2) == Max(m1.start, m2.start) < Min(m1.end, m2.end)

\* the match comes from a window of the length of the pattern
IsCanonical(m) == m.end - m.start = Len(args.pattern)

\* C25: a window of a length other than that of the pattern is dropped
\* whenever its span meets the span of a match accepted before it, also when
\* it strictly contains that span.  The windows of the length of the pattern
\* are all accepted before any other, so no returned match of another length
\* meets any other returned match.
C25_VariantsOverlapNoEarlierMatch ==
    FuzzyCalled
    => \A i \in 1..Len(response) : \A j \in 1..Len(response) :
          (i # j /\ ~IsCanonical(response[i]))
          => ~SpansIntersect(response[i], response[j])

\* the line and the pattern as findFuzzyMatches compares them
Folded(s) == IF args.caseSensitive THEN s ELSE ToLowerCase(s)

\* the window of the length of the pattern at offset i reaches the threshold
CanonicalQualifies(i) ==
    /\ i >= 0
    /\ i + Len(args.pattern) <= Len(args.line)
    /\ RatioAtLeast(similarityRatio(Folded(Substring(args.line, i,
                                                     i + Len(args.pattern))),
                                    Folded(args.pattern)),
                    args.threshold)

\* the start offsets of the returned matches of the length of the pattern
CanonicalStarts == {response[k].start : k \in {j \in 1..Len(response) :
                                                  IsCanonical(response[j])}}

\* C26: after a match of the length L of the pattern at offset s the next
\* window of that length examined is the one at s + floor(L/2) + 1: the
\* windows in between are passed over, every other window that reaches the
\* threshold is a match, and the starts of two such matches are at least
\* floor(L/2) + 1 apart.  The call has returned, so the scan ended.
C26_CanonicalScanSkipsHalfPattern ==
    FuzzyCalled
    => LET skip == Len(args.pattern) \div 2
       IN  /\ \A s \in CanonicalStarts : \A t \in CanonicalStarts :
                 s < t => t - s >= skip + 1
           /\ \A s \in CanonicalStarts : CanonicalQualifies(s)
           /\ \A i \in 0..Len(args.line) :
                 (CanonicalQualifies(i) /\ i \notin CanonicalStarts)
                 => \E s \in CanonicalStarts : s < i /\ i <= s + skip

\* C26 happens: the window at offset 1 reaches the threshold and is passed
\* over after the match at offset 0; the next match starts at offset 2
C26_Witness ==
    /\ FuzzyCalled
    /\ Len(args.pattern) = 2
    /\ CanonicalQualifies(1)
    /\ CanonicalStarts = {0, 2}

\* C27: every returned match has a similarity to the pattern (both set to
\* lower case unless caseSensitive) of at least the threshold, its matched
\* text is the text of the line as it stands from start to end, and the
\* matches are in non-decreasing order of start; at the threshold 1 every
\* returned window is the pattern itself.
C27_MatchesReachThreshold ==
    FuzzyCalled
    => /\ \A k \in 1..Len(response) :
             LET m == response[k]
             IN  /\ 0 <= m.start
                 /\ m.start <= m.end
                 /\ m.end <= Len(args.line)
                 /\ m.matched = Substring(args.line, m.start, m.end)
                 /\ m.similarity = similarityRatio(Folded(m.matched),
                                                   Folded(args.pattern))
                 /\ RatioAtLeast(m.similarity, args.threshold)
                 /\ args.threshold = Ratio(1, 1)
                    => Folded(m.matched) = Folded(args.pattern)
       /\ \A k \in 1..(Len(response) - 1) :
             response[k].start <= response[k + 1].start

\* C27 happens: at the threshold 1, letter case set aside, the line "Ab" is
\* returned as it stands for the pattern "ab"
C27_Witness ==
    /\ FuzzyCalled
    /\ args.threshold = Ratio(1, 1)
    /\ ~args.caseSensitive
    /\ args.pattern = <<"a", "b">>
    /\ Len(response) = 1
    /\ response[1].matched = <<"A", "b">>

\* a search tool has been called
SearchCalled == tool \in {"search_in_file", "batch_search_in_files"}

\* C28: search_in_file and batch_search_in_files modify no file: at every
\* point of a search, failed or not and in any mode, every path holds what
\* it held when the request arrived, and the only calls made to the file
\* system are reads.
C28_SearchesModifyNoFile ==
    SearchCalled
    => /\ files = files0
       /\ \A k \in 1..Len(fsLog) : fsLog[k].call = "readFileSync"

\* C28 happens: a batch has returned with one search that failed on a
\* missing path and one that returned matches
C28_Witness ==
    /\ BatchSearchDone
    /\ \E k \in 1..Len(response.results) :
          /\ ~response.results[k].success
          /\ files0[args.searches[k].path].kind = "none"
    /\ \E k \in 1..Len(response.results) :
          /\ response.results[k].success
          /\ Len(response.results[k].matches) > 0

\* batch_str_replace has returned
BatchStrReplaceDone == pc = "done" /\ tool = "batch_str_replace"

RECURSIVE Kept(_)
\* the files with the writes of the successful ones of the first k items and
\* nothing else
Kept(k) ==
    IF k = 0 THEN files0
    ELSE IF results[k].success
    THEN LET op == args.replacements[k]
         IN  WriteFileSync(Kept(k - 1), op.path,
                           NewContent(Kept(k - 1)[op.path].content, op))
    ELSE Kept(k - 1)

\* C30: batch_str_replace is not transactional.  An item that fails, with
\* stopOnError or without, leaves every file as the item found it; and when
\* the batch has returned, the files hold the writes of every item that
\* succeeded, those before a failing item included, and each of these items
\* is reported as a success.
C30_NotTransactional ==
    /\ (BatchItemDone /\ ~LastResult.success) => files = filesPrev
    /\ BatchStrReplaceDone
       => /\ files = Kept(Len(results))
          /\ \A k \in 1..Len(results) :
                results[k].success
                => /\ response.results[k].success
                   /\ response.results[k].index = k - 1

\* C30 happens: without stopOnError an item has failed between two items
\* that succeeded, and the file holds what the two wrote
C30_Witness ==
    /\ BatchStrReplaceDone
    /\ ~StopOnErrorOf(args)
    /\ Len(results) = 3
    /\ results[1].success
    /\ ~results[2].success
    /\ results[3].success
    /\ files # files0
    /\ response.summary.failed = 1

\* the positions in fsLog of the calls named call of request r for item idx
CallsOf(r, call, idx) ==
    {k \in 1..Len(fsLog) : /\ fsLog[k].request = r
                           /\ fsLog[k].call = call
                           /\ fsLog[k].index = idx}

\* the new text the replacement behind the write e makes of the text content
Replaced(content, e) ==
    LET q == inflight[e.request]
    IN  IF q.tool = "str_replace"
        THEN StringReplace(content, OldStrOf(q.args), NewStrOf(q.args))
        ELSE NewContent(content, q.args.replacements[e.index + 1])

RECURSIVE Replayed(_)
\* the files on arrival after the replacements behind the writes among the
\* first k calls, one after the other in the order of the writes
Replayed(k) ==
    IF k = 0 THEN files0
    ELSE LET e == fsLog[k]
             before == Replayed(k - 1)
         IN  IF e.call = "writeFileSync"
             THEN WriteFileSync(before, e.path,
                                Replaced(before[e.path].content, e))
             ELSE before

\* the replacements request r has reported as successes
ReportedSuccesses(r) ==
    LET q == inflight[r]
    IN  IF q.pc # "done" \/ q.response = Rejected THEN {}
        ELSE IF q.tool = "str_replace"
        THEN IF q.response.isError THEN {} ELSE {0}
        ELSE {q.response.results[k].index :
                 k \in {j \in 1..Len(q.response.results) :
                           q.response.results[j].success}}

\* C29: with several str_replace and batch_str_replace requests in flight,
\* no read or write of the file by another request comes between the read
\* and the write of one replacement; so the files are what the replacements
\* written make of them one after the other, and every replacement reported
\* as a success is among those written.
C29_ReadValidateWriteAtomic ==
    running \in Requests \cup {"none"} /\ DOMAIN inflight = Requests
    => /\ \A i \in 1..Len(fsLog) : \A j \in 1..Len(fsLog) :
             (/\ i < j
              /\ fsLog[i].call = "readFileSync"
              /\ fsLog[j].call = "writeFileSync"
              /\ fsLog[j].request = fsLog[i].request
              /\ fsLog[j].index = fsLog[i].index)
             => \A k \in (i + 1)..(j - 1) :
                   ~(/\ fsLog[k].request # fsLog[i].request
                     /\ fsLog[k].path = fsLog[i].path
                     /\ fsLog[k].call \in {"readFileSync", "writeFileSync"})
       /\ files = Replayed(Len(fsLog))
       /\ \A r \in Requests : \A idx \in ReportedSuccesses(r) :
             CallsOf(r, "writeFileSync", idx) # {}

\* C29 happens: a str_replace and a batch_str_replace are in flight
\* together, both waiting for the audit sink, and file f holds what the two
\* of them wrote
C29_Witness ==
    /\ DOMAIN inflight = Requests
    /\ inflight["r1"].tool = "str_replace"
    /\ inflight["r2"].tool = "batch_str_replace"
    /\ inflight["r1"].pc = "audited"
    /\ inflight["r2"].pc = "audited"
    /\ \E k \in CallsOf("r1", "writeFileSync", 0) : fsLog[k].path = "f"
    /\ \E k \in CallsOf("r2", "writeFileSync", 0) : fsLog[k].path = "f"
    /\ files["f"].content = <<"X", "Y", "b">>

====
